---- MODULE Spec2Model ----
(***************************************************************************)
(* State-machine model of the reservation service: the reservation         *)
(* manager (reservation/src/manager.rs) on top of the rsvp.reservations    *)
(* table, the error conversion (abi/src/error) and the conflict parser     *)
(* (abi/src/error/conflict.rs).                                            *)
(***************************************************************************)
EXTENDS Integers, Sequences, FiniteSets, TLC

(* ----------------------------- bounds ---------------------------------- *)

\* ids handed out by the id sequence of the table: 1..MaxId
MaxId == 2

\* instants used by the requests: seconds 0..MaxSec
MaxSec == 2

(* ------------------------ options and results -------------------------- *)

\* Option<T>: None is the empty tuple, Some(x) the one-element tuple
None == << >>

Some(x) == << x >>

IsSome(o) == Len(o) = 1

Unwrap(o) == o[1]

Ok(v) == [tag |-> "Ok", val |-> v]

Err(e) == [tag |-> "Err", err |-> e]

IsOk(r) == r.tag = "Ok"

IsErr(r) == r.tag = "Err"

ErrIs(r, type) == r.tag = "Err" /\ r.err.type = type

\* a call that panicked: the caller gets no result from it
Panic == [tag |-> "Panic"]

(* ------------------------------ status --------------------------------- *)

StatusUnknown == 0

StatusPending == 1

StatusConfirmed == 2

StatusBlocked == 3

\* ReservationStatus::from_i32: Some(variant) for 0..3, None otherwise
from_i32(n) == IF n \in {StatusUnknown, StatusPending, StatusConfirmed, StatusBlocked}
               THEN Some(n) ELSE None

unwrap_or(o, d) == IF IsSome(o) THEN Unwrap(o) ELSE d

\* Display of ReservationStatus: the label of rsvp.reservation_status
status_to_string(s) ==
    CASE s = StatusUnknown -> "unknown"
      [] s = StatusPending -> "pending"
      [] s = StatusConfirmed -> "confirmed"
      [] s = StatusBlocked -> "blocked"

\* decoding of a rsvp.reservation_status column into the wire enum
status_from_db(l) ==
    CASE l = "unknown" -> StatusUnknown
      [] l = "pending" -> StatusPending
      [] l = "confirmed" -> StatusConfirmed
      [] l = "blocked" -> StatusBlocked

(* ------------------------------- time ---------------------------------- *)

\* prost_types::Timestamp
Timestamp(s, n) == [seconds |-> s, nanos |-> n]

\* convert_to_utc_time: the DateTime<Utc> of a Timestamp (seconds and nanoseconds)
convert_to_utc_time(ts) == [secs |-> ts.seconds, nsecs |-> ts.nanos]

\* convert_to_timestamp: the Timestamp of a DateTime<Utc>
convert_to_timestamp(dt) == [seconds |-> dt.secs, nanos |-> dt.nsecs]

\* a DateTime<Utc> bound as a timestamptz: microseconds since the epoch
to_timestamptz(dt) == dt.secs * 1000000 + (dt.nsecs \div 1000)

\* a timestamptz read back as a DateTime<Utc>
from_timestamptz(us) == [secs |-> us \div 1000000,
                         nsecs |-> (us % 1000000) * 1000]

\* get_timespan: PgRange { start: Included(start), end: Excluded(end) }
get_timespan(start, end) ==
    [lower |-> to_timestamptz(convert_to_utc_time(Unwrap(start))),
     upper |-> to_timestamptz(convert_to_utc_time(Unwrap(end)))]

\* variant: validate_range rejecting a later start only, not an equal one
validate_range_allow_equal(start, end) ==
    IF ~IsSome(start) \/ ~IsSome(end) THEN Err([type |-> "InvalidTimespan"])
    ELSE IF Unwrap(start).seconds > Unwrap(end).seconds
         THEN Err([type |-> "InvalidTimespan"])
         ELSE Ok("unit")

\* validate_range: both ends present and start.seconds < end.seconds
validate_range(start, end) ==
    IF ~IsSome(start) \/ ~IsSome(end) THEN Err([type |-> "InvalidTimespan"])
    ELSE IF Unwrap(start).seconds >= Unwrap(end).seconds
         THEN Err([type |-> "InvalidTimespan"])
         ELSE Ok("unit")

(* ---------------------------- validation ------------------------------- *)

\* impl Validator for ReservationId
validate_id(id) ==
    IF id <= 0 THEN Err([type |-> "InvalidReservationId", id |-> id]) ELSE Ok("unit")

\* impl Validator for Reservation
validate_reservation(r) ==
    IF r.user_id = "" THEN Err([type |-> "InvalidUserId", id |-> r.user_id])
    ELSE IF Len(r.resource_id) = 0
         THEN Err([type |-> "InvalidResourceId", id |-> r.resource_id])
         ELSE validate_range(r.start, r.end)

(* --------------------------- the table --------------------------------- *)

VARIABLES
    rows,   \* the rows of rsvp.reservations
    seq,    \* the last value handed out by the id sequence of the table
    last,   \* the call whose response is on its way to the caller: its operation,
            \* argument and result, and the rows of the table when it was made
    tasks,  \* the reserve calls that run concurrently, one per request task; for
            \* a streaming query its request task and its reader task
    chan    \* the channel between the reader task of a streaming query and the
            \* response stream: its queue and which of its ends were dropped

vars == << rows, seq, last, tasks, chan >>

\* tstzrange && tstzrange on half-open ranges
RangeOverlap(a, b) == a.lower < b.upper /\ b.lower < a.upper

\* the rows the exclusion constraint (resource_id WITH =, timespan WITH &&)
\* sets against a candidate row
ConflictingRows(table, cand) ==
    {r \in table : r.resource_id = cand.resource_id /\ RangeOverlap(r.timespan, cand.timespan)}

\* FromRow for Reservation: a row of the table as the wire message
row_to_reservation(r) ==
    [id |-> r.id,
     user_id |-> r.user_id,
     status |-> status_from_db(r.status),
     resource_id |-> r.resource_id,
     start |-> Some(convert_to_timestamp(from_timestamptz(r.timespan.lower))),
     end |-> Some(convert_to_timestamp(from_timestamptz(r.timespan.upper))),
     note |-> r.note]

RowsWithId(table, id) == {r \in table : r.id = id}

(* ----------------------------- inputs ---------------------------------- *)

UserIds == {"", "u1"}

\* resource ids as character sequences
ResourceIds == { << >>, <<"a">>, <<"b", ".">> }

Notes == {"n1", "n2"}

Instants == {Timestamp(s, 0) : s \in 0..MaxSec}

OptInstants == {None} \cup {Some(t) : t \in Instants}

\* status values a request can carry: the four variants and one that does not decode
RequestStatuses == {StatusUnknown, StatusPending, StatusConfirmed, StatusBlocked, 7}

Reservation(uid, rid, start, end, note, status) ==
    [id |-> 0, user_id |-> uid, status |-> status, resource_id |-> rid,
     start |-> start, end |-> end, note |-> note]

\* requests that pass validation, with every status value
ValidRequests ==
    {r \in {Reservation("u1", rid, Some(Timestamp(s, 0)), Some(Timestamp(e, 0)), "n1", st) :
                rid \in ResourceIds \ {<< >>}, s \in 0..MaxSec, e \in 0..MaxSec,
                st \in RequestStatuses} :
        Unwrap(r.start).seconds < Unwrap(r.end).seconds}

\* requests with one thing wrong: the user, the resource, a missing end of the
\* window, an empty window, an inverted window
InvalidRequests ==
    {Reservation("", <<"a">>, Some(Timestamp(0, 0)), Some(Timestamp(1, 0)), "n1", StatusPending),
     Reservation("", << >>, Some(Timestamp(0, 0)), Some(Timestamp(1, 0)), "n1", StatusPending),
     Reservation("u1", << >>, Some(Timestamp(0, 0)), Some(Timestamp(1, 0)), "n1", StatusPending),
     Reservation("u1", <<"a">>, None, Some(Timestamp(1, 0)), "n1", StatusPending),
     Reservation("u1", <<"a">>, Some(Timestamp(0, 0)), None, "n1", StatusPending),
     Reservation("u1", <<"a">>, Some(Timestamp(1, 0)), Some(Timestamp(1, 0)), "n1", StatusPending),
     Reservation("u1", <<"a">>, Some(Timestamp(1, 0)), Some(Timestamp(0, 0)), "n1", StatusPending)}

Requests == ValidRequests \cup InvalidRequests

ReservationQuery(uid, rid, status, start, end, desc) ==
    [user_id |-> uid, resource_id |-> rid, status |-> status,
     start |-> start, end |-> end, desc |-> desc]

\* queries on every status with each of user and resource given or empty, and
\* some with a start, an end and the descending order
Queries ==
    {ReservationQuery(uid, rid, st, None, None, FALSE) :
        uid \in UserIds, rid \in {<< >>, <<"a">>},
        st \in {StatusUnknown, StatusPending, StatusConfirmed}}
    \cup {ReservationQuery("", << >>, StatusPending, start, end, desc) :
            start \in {None, Some(Timestamp(1, 0))},
            end \in {None, Some(Timestamp(1, 0))}, desc \in BOOLEAN}

\* ids a caller passes: an invalid one, the assigned ones and one never assigned
CallIds == 0..(MaxId + 1)

(* ----------------- the conflict detail and its parser ------------------ *)

\* characters of the class [a-zA-Z0-9_-] that the resource ids here use
WordChars == {"a", "b", "-", "_"}

\* characters of the class \s
SpaceChars == {" "}

\* a timestamptz as the store prints it: "YYYY-MM-DD HH:MM:SS+00", with the
\* fraction of the second printed after the seconds when it is not zero
timestamptz_out(us) == [secs |-> us \div 1000000, frac |-> us % 1000000]

\* one "(resource_id, timespan)=(rid, [\"lower\",\"upper\"))" of the detail
key_out(r) == [rid |-> r.resource_id,
               lower |-> timestamptz_out(r.timespan.lower),
               upper |-> timestamptz_out(r.timespan.upper)]

\* "Key (...)=(new) conflicts with existing key (...)=(old)."
conflict_detail(new, old) == << key_out(new), key_out(old) >>

\* the longest prefix of s made of characters of class
PrefixLen(s, class) ==
    CHOOSE n \in 0..Len(s) :
        /\ \A i \in 1..n : s[i] \in class
        /\ n < Len(s) => s[n + 1] \notin class

\* the regular expression on one key: v1 is one or more word characters,
\* followed by \s*, up to the comma; v2 is the text after the bracket
regex_captures(key) ==
    LET n == PrefixLen(key.rid, WordChars)
        rest == SubSeq(key.rid, n + 1, Len(key.rid))
    IN  IF n >= 1 /\ \A i \in 1..Len(rest) : rest[i] \in SpaceChars
        THEN Some([resource_id |-> SubSeq(key.rid, 1, n),
                   timespan |-> << key.lower, key.upper >>])
        ELSE None

\* parse_time with "%Y-%m-%d %H:%M:%S%#z": no fraction of a second is accepted
parse_time(text) ==
    IF text.frac # 0 THEN Err("unit") ELSE Ok([secs |-> text.secs, nsecs |-> 0])

\* TryFrom<HashMap<String, String>> for ReservationWindow
window_try_from(map) ==
    LET start == parse_time(map.timespan[1])
        end == parse_time(map.timespan[2])
    IN  IF IsErr(start) \/ IsErr(end) THEN Err("unit")
        ELSE Ok([rid |-> map.resource_id, start |-> start.val, end |-> end.val])

\* variant: the first match is taken for the old window, the second for the new
parsed_info_from_str_swapped(s) ==
    LET hits == SelectSeq(s, LAMBDA key : IsSome(regex_captures(key)))
        maps == [i \in 1..Len(hits) |-> Unwrap(regex_captures(hits[i]))]
    IN  IF Len(maps) # 2 THEN Err("unit")
        ELSE Ok([new |-> maps[2], old |-> maps[1]])

\* FromStr for ParsedInfo: one map per match; exactly two matches are needed
parsed_info_from_str(s) ==
    LET hits == SelectSeq(s, LAMBDA key : IsSome(regex_captures(key)))
        maps == [i \in 1..Len(hits) |-> Unwrap(regex_captures(hits[i]))]
    IN  IF Len(maps) # 2 THEN Err("unit")
        ELSE Ok([new |-> maps[1], old |-> maps[2]])

\* FromStr for ReservationConflict, through TryFrom<ParsedInfo>
conflict_from_str(s) ==
    LET info == parsed_info_from_str(s)
    IN  IF IsErr(info) THEN Err("unit")
        ELSE LET old == window_try_from(info.val.old)
                 new == window_try_from(info.val.new)
             IN  IF IsErr(old) \/ IsErr(new) THEN Err("unit")
                 ELSE Ok([old |-> old.val, new |-> new.val])

\* FromStr for ReservationConflictInfo: Parsed, or Unparsed with the string
conflict_info_from_str(s) ==
    LET conflict == conflict_from_str(s)
    IN  IF IsOk(conflict) THEN [variant |-> "Parsed", conflict |-> conflict.val]
        ELSE [variant |-> "Unparsed", text |-> s]

\* the store's error for a violated exclusion constraint of rsvp.reservations
exclusion_violation(new, old) ==
    [kind |-> "Database", code |-> "23P01", schema |-> Some("rsvp"),
     table |-> Some("reservations"), detail |-> Some(conflict_detail(new, old))]

\* variant: the code 23P01 alone decides, whatever the schema and the table
from_sqlx_error_any_table(e) ==
    IF e.kind = "Database"
    THEN IF e.code = "23P01"
         THEN [type |-> "ConflictReservation", info |-> conflict_info_from_str(Unwrap(e.detail))]
         ELSE [type |-> "DbError"]
    ELSE IF e.kind = "RowNotFound" THEN [type |-> "NotFound"]
         ELSE [type |-> "DbError"]

\* From<sqlx::Error> for Error
from_sqlx_error(e) ==
    IF e.kind = "Database"
    THEN IF e.code = "23P01" /\ e.schema = Some("rsvp") /\ e.table = Some("reservations")
         THEN [type |-> "ConflictReservation", info |-> conflict_info_from_str(Unwrap(e.detail))]
         ELSE [type |-> "DbError"]
    ELSE IF e.kind = "RowNotFound" THEN [type |-> "NotFound"]
         ELSE [type |-> "DbError"]

\* Display of Error (thiserror): the text, and the value it is formatted with
error_to_string(err) ==
    CASE err.type = "DbError" -> << "database error" >>
      [] err.type = "ConfigReadError" -> << "config read error" >>
      [] err.type = "ConfigParseError" -> << "config parse error" >>
      [] err.type = "InvalidTimespan" -> << "invalid start/end time" >>
      [] err.type = "InvalidUserId" -> << "Invalid user id: ", err.id >>
      [] err.type = "InvalidReservationId" -> << "Invalid reservation id: ", err.id >>
      [] err.type = "InvalidResourceId" -> << "Invalid resource id: ", err.id >>
      [] err.type = "MissingArgument" -> << "missing argument: ", err.name >>
      [] err.type = "NotFound" -> << "Not found the reservation by given condition" >>
      [] err.type = "ConflictReservation" -> << "Conflict reservation" >>
      [] err.type = "Unknown" -> << "unknown data store error" >>

\* tonic::Status: its code and its message
Status(code, message) == [code |-> code, message |-> message]

\* the status of the errors of the filter's validation, InvalidPageSize,
\* InvalidCursor and InvalidStatus
filter_error_status(err) == Status("InvalidArgument", << err.type >>)

\* variant: every error reported as an internal one
status_from_internal(err) == Status("Internal", << "unknown error" >>)

\* From<Error> for tonic::Status
status_from(err) ==
    CASE err.type \in {"DbError", "ConfigReadError", "ConfigParseError"}
            -> Status("Internal", error_to_string(err))
      [] err.type \in {"InvalidTimespan", "InvalidUserId", "InvalidReservationId",
                       "InvalidResourceId", "MissingArgument"}
            -> Status("InvalidArgument", error_to_string(err))
      [] err.type = "NotFound"
            -> Status("NotFound", << "not found the reservation by given condition" >>)
      [] err.type = "ConflictReservation"
            -> Status("AlreadyExists", << "Conflict reservation: ", err.info >>)
      [] err.type = "Unknown" -> Status("Internal", << "unknown error" >>)
      [] OTHER -> filter_error_status(err)

\* fetch_one on the rows a statement returns: the row, or sqlx::Error::RowNotFound
fetch_one(found) ==
    IF found = {} THEN Err(from_sqlx_error([kind |-> "RowNotFound"]))
    ELSE Ok(row_to_reservation(CHOOSE r \in found : TRUE))

(* ------------------------- the manager's calls ------------------------- *)

\* no call is in progress
Idle == [op |-> "none"]

\* no streaming query is in progress: no channel was made
NoChannel == [queue |-> << >>, rx_dropped |-> FALSE, tx_dropped |-> FALSE]

\* a call is served: it starts when no other is in progress and ends with its result
Done(op, arg, res) ==
    /\ last = Idle
    /\ last' = [op |-> op, arg |-> arg, res |-> res, pre |-> rows]
    /\ UNCHANGED chan

\* the response reaches the caller
respond ==
    /\ last # Idle
    /\ last' = Idle
    /\ UNCHANGED << rows, seq, tasks, chan >>

\* the row the INSERT of reserve adds, with the id the sequence hands out
reserve_row(rsvp, id) ==
    [id |-> id,
     user_id |-> rsvp.user_id,
     resource_id |-> rsvp.resource_id,
     timespan |-> get_timespan(rsvp.start, rsvp.end),
     note |-> rsvp.note,
     status |-> status_to_string(unwrap_or(from_i32(rsvp.status), StatusPending))]

\* variant: the INSERT on a table without the exclusion constraint
reserve_insert_unchecked(table, s, rsvp) ==
    {[res |-> Ok([rsvp EXCEPT !.id = s + 1]),
      rows |-> table \cup {reserve_row(rsvp, s + 1)}, seq |-> s + 1]}

\* variant: the id is one more than the greatest id stored, not the next
\* value of the sequence
reserve_insert_max_id(table, s, rsvp) ==
    LET free == CHOOSE id \in 1..(s + 1) :
                    /\ \A r \in table : r.id < id
                    /\ \A below \in 1..(id - 1) : \E r \in table : r.id >= below
        row == reserve_row(rsvp, free)
        clash == ConflictingRows(table, row)
    IN  IF clash # {}
        THEN {[res |-> Err(from_sqlx_error(exclusion_violation(row, old))),
               rows |-> table, seq |-> s] : old \in clash}
        ELSE {[res |-> Ok([rsvp EXCEPT !.id = free]),
               rows |-> table \cup {row}, seq |-> free]}

\* variant: the row is stored before the conflict is found and stays stored
reserve_insert_no_rollback(table, s, rsvp) ==
    LET row == reserve_row(rsvp, s + 1)
        clash == ConflictingRows(table, row)
    IN  IF clash # {}
        THEN {[res |-> Err(from_sqlx_error(exclusion_violation(row, old))),
               rows |-> table \cup {row}, seq |-> s + 1] : old \in clash}
        ELSE {[res |-> Ok([rsvp EXCEPT !.id = s + 1]),
               rows |-> table \cup {row}, seq |-> s + 1]}

\* the INSERT ... RETURNING id of reserve as one statement on the table, and
\* the result reserve makes of it: the store's conflict error for one of the
\* rows the new row conflicts with, or the new row added and the request
\* returned with its id
reserve_insert(table, s, rsvp) ==
    LET row == reserve_row(rsvp, s + 1)
        clash == ConflictingRows(table, row)
    IN  IF clash # {}
        THEN {[res |-> Err(from_sqlx_error(exclusion_violation(row, old))),
               rows |-> table, seq |-> s] : old \in clash}
        ELSE {[res |-> Ok([rsvp EXCEPT !.id = s + 1]),
               rows |-> table \cup {row}, seq |-> s + 1]}

\* what ReservationManager::reserve returns and leaves in the table: the
\* error of the validation, or what its INSERT gives
reserve_result(table, s, rsvp) ==
    LET valid == validate_reservation(rsvp)
    IN  IF IsErr(valid) THEN {[res |-> valid, rows |-> table, seq |-> s]}
        ELSE reserve_insert(table, s, rsvp)

\* ReservationManager::reserve
reserve(rsvp) ==
    \E o \in reserve_result(rows, seq, rsvp) :
        /\ o.seq <= MaxId
        /\ rows' = o.rows
        /\ seq' = o.seq
        /\ Done("reserve", rsvp, o.res)
        /\ UNCHANGED tasks

\* variant: the UPDATE of change_status without its status = 'pending' condition
change_status_any(id) ==
    LET valid == validate_id(id)
    IN  IF IsErr(valid)
        THEN /\ Done("change_status", id, valid)
             /\ UNCHANGED << rows, seq, tasks >>
        ELSE LET hit == {r \in rows : r.id = id}
                 new == {[r EXCEPT !.status = "confirmed"] : r \in hit}
             IN  /\ rows' = (rows \ hit) \cup new
                 /\ Done("change_status", id, fetch_one(new))
                 /\ UNCHANGED << seq, tasks >>

\* ReservationManager::change_status
change_status(id) ==
    LET valid == validate_id(id)
    IN  IF IsErr(valid)
        THEN /\ Done("change_status", id, valid)
             /\ UNCHANGED << rows, seq, tasks >>
        ELSE LET hit == {r \in rows : r.id = id /\ r.status = "pending"}
                 new == {[r EXCEPT !.status = "confirmed"] : r \in hit}
             IN  /\ rows' = (rows \ hit) \cup new
                 /\ Done("change_status", id, fetch_one(new))
                 /\ UNCHANGED << seq, tasks >>

\* variant: the UPDATE of update_note setting the status back to pending too
update_note_reset(id, note) ==
    LET valid == validate_id(id)
    IN  IF IsErr(valid)
        THEN /\ Done("update_note", << id, note >>, valid)
             /\ UNCHANGED << rows, seq, tasks >>
        ELSE LET hit == {r \in rows : r.id = id}
                 new == {[r EXCEPT !.note = note, !.status = "pending"] : r \in hit}
             IN  /\ rows' = (rows \ hit) \cup new
                 /\ Done("update_note", << id, note >>, fetch_one(new))
                 /\ UNCHANGED << seq, tasks >>

\* ReservationManager::update_note
update_note(id, note) ==
    LET valid == validate_id(id)
    IN  IF IsErr(valid)
        THEN /\ Done("update_note", << id, note >>, valid)
             /\ UNCHANGED << rows, seq, tasks >>
        ELSE LET hit == {r \in rows : r.id = id}
                 new == {[r EXCEPT !.note = note] : r \in hit}
             IN  /\ rows' = (rows \ hit) \cup new
                 /\ Done("update_note", << id, note >>, fetch_one(new))
                 /\ UNCHANGED << seq, tasks >>

\* variant: the DELETE of delete removing pending rows only
delete_pending(id) ==
    LET valid == validate_id(id)
    IN  IF IsErr(valid)
        THEN /\ Done("delete", id, valid)
             /\ UNCHANGED << rows, seq, tasks >>
        ELSE /\ rows' = rows \ {r \in rows : r.id = id /\ r.status = "pending"}
             /\ Done("delete", id, Ok("unit"))
             /\ UNCHANGED << seq, tasks >>

\* ReservationManager::delete
delete(id) ==
    LET valid == validate_id(id)
    IN  IF IsErr(valid)
        THEN /\ Done("delete", id, valid)
             /\ UNCHANGED << rows, seq, tasks >>
        ELSE /\ rows' = rows \ {r \in rows : r.id = id}
             /\ Done("delete", id, Ok("unit"))
             /\ UNCHANGED << seq, tasks >>

\* ReservationManager::get
get(id) ==
    LET valid == validate_id(id)
    IN  /\ Done("get", id, IF IsErr(valid) THEN valid
                           ELSE fetch_one({r \in rows : r.id = id}))
        /\ UNCHANGED << rows, seq, tasks >>

\* the rows the range query selects: the window [start, end) of the query, an
\* absent end of it unbounded, contains the timespan; the status is the
\* query's; the user and the resource are the query's when these are not empty
query_rows(table, query) ==
    LET status == unwrap_or(from_i32(query.status), StatusPending)
    IN  {r \in table :
            /\ ~IsSome(query.start)
                  \/ to_timestamptz(convert_to_utc_time(Unwrap(query.start))) <= r.timespan.lower
            /\ ~IsSome(query.end)
                  \/ r.timespan.upper <= to_timestamptz(convert_to_utc_time(Unwrap(query.end)))
            /\ r.status = status_to_string(status)
            /\ query.user_id = "" \/ r.user_id = query.user_id
            /\ Len(query.resource_id) = 0 \/ r.resource_id = query.resource_id}

\* ORDER BY lower(timespan) ASC or DESC: every order of the rows that the
\* sort key allows
ordered_by_lower(found, desc) ==
    {out \in [1..Cardinality(found) -> found] :
        /\ \A i, j \in DOMAIN out : i # j => out[i] # out[j]
        /\ \A i, j \in DOMAIN out :
              i < j => IF desc THEN out[i].timespan.lower >= out[j].timespan.lower
                       ELSE out[i].timespan.lower <= out[j].timespan.lower}

\* variant: the rows asked for in ascending order whatever the query says
query_ascending(q) ==
    /\ \E out \in ordered_by_lower(query_rows(rows, q), FALSE) :
          Done("query", q, Ok([i \in DOMAIN out |-> row_to_reservation(out[i])]))
    /\ UNCHANGED << rows, seq, tasks >>

\* ReservationManager::query
query(q) ==
    /\ \E out \in ordered_by_lower(query_rows(rows, q), q.desc) :
          Done("query", q, Ok([i \in DOMAIN out |-> row_to_reservation(out[i])]))
    /\ UNCHANGED << rows, seq, tasks >>

(* ---------------------- concurrent reserve calls ----------------------- *)

\* the request tasks that call reserve at the same time
TaskIds == {1, 2}

IdleTask == [pc |-> "idle"]

\* the requests of the concurrent calls
TaskRequests == {r \in Requests : r.status = StatusPending}

\* the rows the INSERT of task t is checked against: those of the table when
\* the statement executes
visible_rows(t) == rows

\* reserve up to its await: validation; the statement is then in flight
reserve_begin(t, rsvp) ==
    LET valid == validate_reservation(rsvp)
        others == {u \in TaskIds \ {t} : tasks[u].pc = "insert"}
    IN  /\ tasks[t].pc = "idle"
        /\ tasks' = IF IsErr(valid)
                    THEN [tasks EXCEPT ![t] = [pc |-> "done", rsvp |-> rsvp, res |-> valid,
                                              snap |-> rows, conc |-> FALSE]]
                    ELSE [u \in TaskIds |->
                            IF u = t THEN [pc |-> "insert", rsvp |-> rsvp, snap |-> rows,
                                           conc |-> others # {}]
                            ELSE IF u \in others THEN [tasks[u] EXCEPT !.conc = TRUE]
                                 ELSE tasks[u]]
        /\ UNCHANGED << rows, seq, last, chan >>

\* variant: reserve checking the overlap itself on the rows it read when the
\* call began, its INSERT going to a table without the constraint
reserve_execute_check_then_insert(t) ==
    /\ tasks[t].pc = "insert"
    /\ \E o \in reserve_insert(tasks[t].snap, seq, tasks[t].rsvp) :
          /\ o.seq <= MaxId
          /\ rows' = rows \cup o.rows
          /\ seq' = o.seq
          /\ tasks' = [tasks EXCEPT ![t] = [pc |-> "done", rsvp |-> tasks[t].rsvp,
                                            res |-> o.res, snap |-> tasks[t].snap,
                                            conc |-> tasks[t].conc]]
    /\ UNCHANGED << last, chan >>

\* the statement of task t executes, and reserve returns
reserve_execute(t) ==
    /\ tasks[t].pc = "insert"
    /\ \E o \in reserve_insert(visible_rows(t), seq, tasks[t].rsvp) :
          /\ o.seq <= MaxId
          /\ rows' = rows \cup o.rows
          /\ seq' = o.seq
          /\ tasks' = [tasks EXCEPT ![t] = [pc |-> "done", rsvp |-> tasks[t].rsvp,
                                            res |-> o.res, snap |-> tasks[t].snap,
                                            conc |-> tasks[t].conc]]
    /\ UNCHANGED << last, chan >>

\* the responses of all the calls have reached their callers
tasks_return ==
    /\ \A t \in TaskIds : tasks[t].pc = "done"
    /\ tasks' = [t \in TaskIds |-> IdleTask]
    /\ UNCHANGED << rows, seq, last, chan >>

NextConc ==
    \/ \E t \in TaskIds, rsvp \in TaskRequests : reserve_begin(t, rsvp)
    \/ \E t \in TaskIds : reserve_execute(t)
    \/ tasks_return

(* ------------------------------ initial -------------------------------- *)

Init ==
    /\ rows = {}
    /\ seq = 0
    /\ last = Idle
    /\ tasks = [t \in TaskIds |-> IdleTask]
    /\ chan = NoChannel

Next ==
    \/ \E rsvp \in Requests : reserve(rsvp)
    \/ \E id \in CallIds : change_status(id)
    \/ \E id \in CallIds, note \in Notes : update_note(id, note)
    \/ \E id \in CallIds : delete(id)
    \/ \E id \in CallIds : get(id)
    \/ \E q \in Queries : query(q)
    \/ respond

Spec == Init /\ [][Next]_vars

SpecConc == Init /\ [][NextConc]_vars

(* ------------- validators, normalizers and the pager (abi) ------------- *)

\* items of a page handed to get_pager: 0..MaxItems of them
MaxItems == 3

\* the bounds of a page size
MinPageSize == 10

MaxPageSize == 100

\* instants with a sub-second part
NanoInstants == {Timestamp(sec, n) : sec \in 0..MaxSec, n \in {0, 500}}

OptNanoInstants == {None} \cup {Some(t) : t \in NanoInstants}

ReservationFilter(uid, rid, status, cursor, page_size, desc) ==
    [user_id |-> uid, resource_id |-> rid, status |-> status,
     cursor |-> cursor, page_size |-> page_size, desc |-> desc]

\* queries handed to the validator: every status, decodable or not, and every
\* pair of start and end, present or absent
ValidatedQueries ==
    {ReservationQuery("u1", <<"a">>, st, start, end, FALSE) :
        st \in {StatusUnknown, StatusPending, StatusConfirmed, 7},
        start \in OptNanoInstants, end \in OptNanoInstants}

\* filters handed to the validator: page sizes around the two bounds, cursors
\* absent, negative, zero and positive, statuses decodable or not
ValidatedFilters ==
    {ReservationFilter("u1", <<"a">>, st, cursor, size, desc) :
        st \in {StatusUnknown, StatusPending, StatusBlocked, 7},
        cursor \in {None, Some(-1), Some(0), Some(3)},
        size \in {MinPageSize - 1, MinPageSize, MaxPageSize, MaxPageSize + 1},
        desc \in BOOLEAN}

\* impl Validator for ReservationQuery
validate_query(q) ==
    IF ~IsSome(from_i32(q.status))
    THEN Err([type |-> "InvalidStatus", status |-> q.status])
    ELSE IF /\ IsSome(q.start) /\ IsSome(q.end)
            /\ Unwrap(q.start).seconds > Unwrap(q.end).seconds
         THEN Err([type |-> "InvalidTimespan"])
         ELSE Ok("unit")

\* impl Validator for ReservationFilter
validate_filter(f) ==
    IF f.page_size < MinPageSize \/ f.page_size > MaxPageSize
    THEN Err([type |-> "InvalidPageSize", page_size |-> f.page_size])
    ELSE IF IsSome(f.cursor) /\ Unwrap(f.cursor) < 0
         THEN Err([type |-> "InvalidCursor", cursor |-> Unwrap(f.cursor)])
         ELSE IF ~IsSome(from_i32(f.status))
              THEN Err([type |-> "InvalidStatus", status |-> f.status])
              ELSE Ok("unit")

\* variant: do_normalize setting the status to pending whatever it was
query_do_normalize_always(q) == [q EXCEPT !.status = StatusPending]

\* impl Normalizer for ReservationQuery: do_normalize
query_do_normalize(q) ==
    IF q.status = StatusUnknown THEN [q EXCEPT !.status = StatusPending] ELSE q

\* impl Normalizer for ReservationFilter: do_normalize
filter_do_normalize(f) ==
    IF f.status = StatusUnknown THEN [f EXCEPT !.status = StatusPending] ELSE f

\* Normalizer::normalize on a query: its result and the message afterwards
normalize_query(q) ==
    LET valid == validate_query(q)
    IN  IF IsErr(valid) THEN [res |-> valid, msg |-> q]
        ELSE [res |-> Ok("unit"), msg |-> query_do_normalize(q)]

\* Normalizer::normalize on a filter: its result and the message afterwards
normalize_filter(f) ==
    LET valid == validate_filter(f)
    IN  IF IsErr(valid) THEN [res |-> valid, msg |-> f]
        ELSE [res |-> Ok("unit"), msg |-> filter_do_normalize(f)]

PageInfo(cursor, page_size, desc) ==
    [cursor |-> cursor, page_size |-> page_size, desc |-> desc]

\* variant: get_pager reporting a next page for a page that is exactly full
get_pager_full(page_info, data) ==
    [pager |-> [prev |-> IF IsSome(page_info.cursor) /\ Len(data) > 0
                         THEN Some(data[1].id) ELSE None,
                next |-> IF Len(data) >= page_info.page_size /\ Len(data) > 0
                         THEN Some(data[Len(data)].id) ELSE None,
                total |-> None],
     data |-> data]

\* PageInfo::get_pager: the pager, and the data it was given as it is afterwards
get_pager(page_info, data) ==
    LET has_prev == IsSome(page_info.cursor)
        has_next == Len(data) > page_info.page_size
    IN  [pager |-> [prev |-> IF has_prev /\ Len(data) > 0 THEN Some(data[1].id) ELSE None,
                    next |-> IF has_next /\ Len(data) > 0
                             THEN Some(data[Len(data)].id) ELSE None,
                    total |-> None],
         data |-> data]

\* generate_test_ids(start, end): items with the ids start..end
generate_test_ids(start, end) == [i \in 1..(end - start + 1) |-> [id |-> start + i - 1]]

\* the same items from the last to the first
Reversed(data) == [i \in 1..Len(data) |-> data[Len(data) - i + 1]]

\* the pages handed to get_pager: 0..MaxItems items from id 1 or 2 on, in
\* ascending and in descending order
PagerData ==
    LET asc == {generate_test_ids(start, start + n - 1) : start \in {1, 2}, n \in 0..MaxItems}
    IN  asc \cup {Reversed(data) : data \in asc}

PageInfos ==
    {PageInfo(cursor, size, desc) :
        cursor \in {None, Some(0), Some(2)}, size \in 1..MaxItems, desc \in BOOLEAN}

\* a call of a function of abi, with its argument and its result
call_validate_range(start, end) ==
    /\ Done("validate_range", << start, end >>, validate_range(start, end))
    /\ UNCHANGED << rows, seq, tasks >>

call_validate_query(q) ==
    /\ Done("validate_query", q, validate_query(q))
    /\ UNCHANGED << rows, seq, tasks >>

call_validate_filter(f) ==
    /\ Done("validate_filter", f, validate_filter(f))
    /\ UNCHANGED << rows, seq, tasks >>

call_normalize_query(q) ==
    /\ Done("normalize_query", q, normalize_query(q))
    /\ UNCHANGED << rows, seq, tasks >>

call_normalize_filter(f) ==
    /\ Done("normalize_filter", f, normalize_filter(f))
    /\ UNCHANGED << rows, seq, tasks >>

call_get_pager(page_info, data) ==
    /\ Done("get_pager", << page_info, data >>, get_pager(page_info, data))
    /\ UNCHANGED << rows, seq, tasks >>

\* one error of every kind: those of the validations, of the store and of
\* the service
Errors ==
    {[type |-> t] : t \in {"DbError", "ConfigReadError", "ConfigParseError",
                            "InvalidTimespan", "NotFound", "Unknown"}}
    \cup {[type |-> "InvalidUserId", id |-> ""],
          [type |-> "InvalidResourceId", id |-> << >>]}
    \cup {[type |-> "InvalidReservationId", id |-> id] : id \in {-1, 0}}
    \cup {[type |-> "MissingArgument", name |-> n] : n \in {"reservation", "query", "filter"}}
    \cup {from_sqlx_error(exclusion_violation(reserve_row(r, 2), reserve_row(r, 1))) :
            r \in {Reservation("u1", rid, Some(Timestamp(0, 0)), Some(Timestamp(1, 0)),
                               "n1", StatusPending) : rid \in {<<"a">>, <<"b", ".">>}}}
    \cup {[type |-> "InvalidPageSize", page_size |-> MinPageSize - 1],
          [type |-> "InvalidCursor", cursor |-> -1],
          [type |-> "InvalidStatus", status |-> 7]}

call_status_from(err) ==
    /\ Done("status_from", err, status_from(err))
    /\ UNCHANGED << rows, seq, tasks >>

\* the keys a conflict detail is made of: a resource id the expression
\* reads ("a") and one it does not ("b."), windows printed with whole seconds
\* and one printed with a fraction of a second
DetailKeys ==
    {[rid |-> rid, lower |-> timestamptz_out(w[1]), upper |-> timestamptz_out(w[2])] :
        rid \in {<<"a">>, <<"b", ".">>},
        w \in {<< 0, 1000000 >>, << 1000000, 2000000 >>, << 500000, 1000000 >>}}

\* the details of the store: "Key conflicts with existing key." without an
\* entry, and texts of one to three entries
Details ==
    {<< >>} \cup {<< k >> : k \in DetailKeys}
    \cup {<< new, old >> : new \in DetailKeys, old \in DetailKeys}
    \cup {<< k, k, old >> : k \in DetailKeys, old \in DetailKeys}

\* the errors sqlx hands over: those of the database, with the code of an
\* exclusion violation (always reported with a detail) or of a unique
\* violation, on the table of the reservations or elsewhere, the missing
\* row, and an error that is neither
SqlxErrors ==
    {[kind |-> "Database", code |-> "23P01", schema |-> schema, table |-> table,
      detail |-> Some(detail)] :
        schema \in {None, Some("rsvp"), Some("public")},
        table \in {None, Some("reservations"), Some("users")},
        detail \in {<< >>} \cup {<< new, old >> : new \in DetailKeys, old \in DetailKeys}}
    \cup {[kind |-> "Database", code |-> "23505", schema |-> schema, table |-> table,
           detail |-> None] :
            schema \in {None, Some("rsvp")}, table \in {None, Some("reservations")}}
    \cup {[kind |-> "RowNotFound"], [kind |-> "PoolTimedOut"]}

call_from_sqlx_error(e) ==
    /\ Done("from_sqlx_error", e, from_sqlx_error(e))
    /\ UNCHANGED << rows, seq, tasks >>

call_conflict_info_from_str(s) ==
    /\ Done("conflict_info_from_str", s, conflict_info_from_str(s))
    /\ UNCHANGED << rows, seq, tasks >>

NextAbi ==
    \/ \E e \in SqlxErrors : call_from_sqlx_error(e)
    \/ \E s \in Details : call_conflict_info_from_str(s)
    \/ \E start \in OptNanoInstants, end \in OptNanoInstants : call_validate_range(start, end)
    \/ \E q \in ValidatedQueries : call_validate_query(q)
    \/ \E f \in ValidatedFilters : call_validate_filter(f)
    \/ \E q \in ValidatedQueries : call_normalize_query(q)
    \/ \E f \in ValidatedFilters : call_normalize_filter(f)
    \/ \E page_info \in PageInfos, data \in PagerData : call_get_pager(page_info, data)
    \/ \E err \in Errors : call_status_from(err)
    \/ respond

SpecAbi == Init /\ [][NextAbi]_vars

(* --------------------------- the paged filter -------------------------- *)

\* rows of the table a filter scans: ids 1..n with n up to MaxRows
MaxRows == 12

\* the cursor of a descending scan without a cursor: the largest id (i64::MAX
\* in the source, here the largest integer the checker holds)
MaxCursor == 2147483647

\* str_to_option: None for the empty string (empty being its empty value)
str_to_option(str, empty) == IF str = empty THEN None ELSE Some(str)

RECURSIVE sorted_by_id(_, _)
\* ORDER BY id ASC or DESC
sorted_by_id(found, desc) ==
    IF found = {} THEN << >>
    ELSE LET first == CHOOSE r \in found :
                         \A o \in found : IF desc THEN o.id <= r.id ELSE o.id >= r.id
         IN  << first >> \o sorted_by_id(found \ {first}, desc)

\* the SQL function rsvp.filter(uid, rid, status, cursor, is_desc, page_size):
\* the rows of the user and the resource, when given, with the status, from
\* the cursor on in the direction of the scan, ordered by id, page_size + 1 of
\* them and one more when a cursor is given
rsvp_filter(table, uid, rid, status, cursor, is_desc, page_size) ==
    LET from == IF IsSome(cursor) THEN Unwrap(cursor)
                ELSE IF is_desc THEN MaxCursor ELSE 0
        limit == page_size + 1 + (IF IsSome(cursor) THEN 1 ELSE 0)
        found == {r \in table :
                    /\ ~IsSome(uid) \/ r.user_id = Unwrap(uid)
                    /\ ~IsSome(rid) \/ r.resource_id = Unwrap(rid)
                    /\ r.status = status
                    /\ IF is_desc THEN r.id <= from ELSE r.id >= from}
        all == sorted_by_id(found, is_desc)
    IN  SubSeq(all, 1, IF Len(all) < limit THEN Len(all) ELSE limit)

\* variant: the page cut out of the rows without setting the cursor's row aside
filter_page_from_first(f, page_size, rsvps) ==
    LET has_next == Len(rsvps) > page_size
        end == IF has_next THEN Len(rsvps) - 1 ELSE Len(rsvps)
    IN  [pager |-> [prev |-> -1,
                    next |-> IF has_next THEN rsvps[end].id ELSE -1,
                    total |-> 0],
         reservations |-> SubSeq(rsvps, 1, end)]

\* variant: next names the row that was fetched beyond the page
filter_page_next_fetched(f, page_size, rsvps) ==
    LET has_pre == Len(rsvps) > 0 /\ rsvps[1].id = f.cursor
        start == IF has_pre THEN 1 ELSE 0
        has_next == Len(rsvps) - start > page_size
        end == IF has_next THEN Len(rsvps) - 1 ELSE Len(rsvps)
    IN  [pager |-> [prev |-> IF has_pre THEN rsvps[start].id ELSE -1,
                    next |-> IF has_next THEN rsvps[Len(rsvps)].id ELSE -1,
                    total |-> 0],
         reservations |-> SubSeq(rsvps, start + 1, end)]

\* filter after its query: the pager and the page rsvps[start..end]
filter_page(f, page_size, rsvps) ==
    LET has_pre == Len(rsvps) > 0 /\ rsvps[1].id = f.cursor
        start == IF has_pre THEN 1 ELSE 0
        has_next == Len(rsvps) - start > page_size
        end == IF has_next THEN Len(rsvps) - 1 ELSE Len(rsvps)
    IN  [pager |-> [prev |-> IF has_pre THEN rsvps[start].id ELSE -1,
                    next |-> IF has_next THEN rsvps[end].id ELSE -1,
                    total |-> 0],
         reservations |-> SubSeq(rsvps, start + 1, end)]

\* what ReservationManager::filter returns on the table
filter_result(table, f) ==
    LET uid == str_to_option(f.user_id, "")
        rid == str_to_option(f.resource_id, << >>)
        status == unwrap_or(from_i32(f.status), StatusPending)
        page_size == IF f.page_size < MinPageSize \/ f.page_size > MaxPageSize
                     THEN MinPageSize ELSE f.page_size
        found == rsvp_filter(table, uid, rid, status_to_string(status), Some(f.cursor),
                             f.desc, page_size)
        rsvps == [i \in DOMAIN found |-> row_to_reservation(found[i])]
    IN  Ok(filter_page(f, page_size, rsvps))

\* ReservationManager::filter
filter(f) ==
    /\ Done("filter", f, filter_result(rows, f))
    /\ UNCHANGED << rows, seq, tasks >>

\* ReservationFilter::get_cursor: the cursor, or the first id of the scan
get_cursor(f) == unwrap_or(f.cursor, IF f.desc THEN MaxCursor ELSE 0)

\* variant: the limit is page_size + 1 whether a cursor is given or not
filter_to_sql_no_middle(f) ==
    IF ~IsSome(from_i32(f.status)) THEN Panic
    ELSE [user_id |-> str_to_option(f.user_id, ""),
          resource_id |-> str_to_option(f.resource_id, << >>),
          status |-> status_to_string(Unwrap(from_i32(f.status))),
          cursor_condition |-> [op |-> IF f.desc THEN "<=" ELSE ">=", id |-> get_cursor(f)],
          order |-> IF f.desc THEN "DESC" ELSE "ASC",
          limit |-> f.page_size + 1]

\* impl ToSql for ReservationFilter: the parts of the SELECT; get_status
\* unwraps the decoded status
filter_to_sql(f) ==
    LET middle_plus == IF IsSome(f.cursor) THEN 1 ELSE 0
        limit == f.page_size + 1 + middle_plus
    IN  IF ~IsSome(from_i32(f.status)) THEN Panic
        ELSE [user_id |-> str_to_option(f.user_id, ""),
              resource_id |-> str_to_option(f.resource_id, << >>),
              status |-> status_to_string(Unwrap(from_i32(f.status))),
              cursor_condition |-> [op |-> IF f.desc THEN "<=" ELSE ">=", id |-> get_cursor(f)],
              order |-> IF f.desc THEN "DESC" ELSE "ASC",
              limit |-> limit]

\* the rows the SELECT of to_sql returns on the table
select_rows(table, sql) ==
    LET found == {r \in table :
                    /\ ~IsSome(sql.user_id) \/ r.user_id = Unwrap(sql.user_id)
                    /\ ~IsSome(sql.resource_id) \/ r.resource_id = Unwrap(sql.resource_id)
                    /\ r.status = sql.status
                    /\ IF sql.cursor_condition.op = "<=" THEN r.id <= sql.cursor_condition.id
                       ELSE r.id >= sql.cursor_condition.id}
        all == sorted_by_id(found, sql.order = "DESC")
    IN  SubSeq(all, 1, IF Len(all) < sql.limit THEN Len(all) ELSE sql.limit)

\* the statement of a filter, and the rows it returns on the table
call_to_sql(f) ==
    /\ LET sql == filter_to_sql(f)
       IN  Done("to_sql", f, IF sql = Panic THEN Panic
                             ELSE [sql |-> sql, fetched |-> select_rows(rows, sql)])
    /\ UNCHANGED << rows, seq, tasks >>

\* row id of a table the filter scans: user u1, the window [id - 1, id) seconds,
\* pending on resource a; in a mixed table row 2 is confirmed and row 4 is on
\* another resource
filter_row(id, mixed) ==
    [id |-> id,
     user_id |-> "u1",
     resource_id |-> IF mixed /\ id = 4 THEN <<"b", ".">> ELSE <<"a">>,
     timespan |-> get_timespan(Some(Timestamp(id - 1, 0)), Some(Timestamp(id, 0))),
     note |-> "n1",
     status |-> IF mixed /\ id = 2 THEN "confirmed" ELSE "pending"]

\* the tables the filter scans: the rows 1..n, all of them or all but row 3
FilterTables ==
    {{filter_row(id, mixed) : id \in (1..n) \ gone} :
        n \in 0..MaxRows, gone \in {{}, {3}}, mixed \in BOOLEAN}

\* filters: user and resource given or not, statuses decodable or not, cursors
\* negative, before, on and after the stored ids, page sizes around the bounds
ManagerFilters ==
    {ReservationFilter(who[1], who[2], st, cursor, size, desc) :
        who \in {<< "", << >> >>, << "u1", <<"a">> >>},
        st \in {StatusUnknown, StatusPending, 7},
        cursor \in {-1, 0, 2, 3, MaxRows + 1},
        size \in {MinPageSize - 1, MinPageSize, MinPageSize + 1, MaxPageSize + 1},
        desc \in BOOLEAN}

\* filters turned into a statement: the cursor absent, before, on and after
\* the stored ids, page sizes that make the limit cut the rows of the
\* larger tables, a status that does not decode
PlannedFilters ==
    {ReservationFilter(who[1], who[2], st, cursor, size, desc) :
        who \in {<< "", << >> >>, << "u1", <<"a">> >>, << "", <<"a">> >>, << "u1", << >> >>},
        st \in {StatusPending, StatusConfirmed, 7},
        cursor \in {None, Some(0), Some(2), Some(3), Some(MaxRows + 1)},
        size \in {MinPageSize - 1, MinPageSize},
        desc \in BOOLEAN}

InitFilter ==
    /\ rows \in FilterTables
    /\ seq = MaxRows
    /\ last = Idle
    /\ tasks = [t \in TaskIds |-> IdleTask]
    /\ chan = NoChannel

NextFilter ==
    \/ \E f \in ManagerFilters : filter(f)
    \/ \E f \in PlannedFilters : call_to_sql(f)
    \/ respond

SpecFilter == InitFilter /\ [][NextFilter]_vars

(* ------------------------ a scan page after page ----------------------- *)

\* rows of the table a scan pages through: enough for three pages
MaxScanRows == 23

\* no scan is in progress
NoScan == [pc |-> "idle"]

\* the filter of the next page: the same filter from the pager's next on, or
\* none when the pager has no next (-1)
next_page(f, pager) ==
    IF pager.next # -1 THEN Some([f EXCEPT !.cursor = pager.next]) ELSE None

\* the scan after a call of filter returned: the page is added to the rows
\* seen, and the scan goes on with the filter of the next page or ends
scanned(f, res, seen, calls) ==
    LET page == next_page(f, res.val.pager)
    IN  [pc |-> IF IsSome(page) THEN "paging" ELSE "done",
         first |-> IF calls = 0 THEN f ELSE tasks.first,
         filter |-> IF IsSome(page) THEN Unwrap(page) ELSE f,
         seen |-> seen \o res.val.reservations,
         calls |-> calls + 1]

\* the first call of a scan: a filter built without a cursor (the builder's
\* default, 0)
scan_first(f) ==
    /\ tasks = NoScan
    /\ f.cursor = 0
    /\ Done("filter", f, filter_result(rows, f))
    /\ tasks' = scanned(f, filter_result(rows, f), << >>, 0)
    /\ UNCHANGED << rows, seq >>

\* a further call of the scan, with the cursor the last pager gave as next
scan_next ==
    /\ tasks.pc = "paging"
    /\ Done("filter", tasks.filter, filter_result(rows, tasks.filter))
    /\ tasks' = scanned(tasks.filter, filter_result(rows, tasks.filter),
                        tasks.seen, tasks.calls)
    /\ UNCHANGED << rows, seq >>

\* the response of a call of the scan reaches the caller
scan_respond ==
    /\ tasks # NoScan
    /\ last # Idle
    /\ last' = Idle
    /\ UNCHANGED << rows, seq, tasks, chan >>

\* the tables a scan pages through: the rows 1..n, all of them or all but
\* row 3, all pending on resource a or mixed
ScanTables ==
    {{filter_row(id, mixed) : id \in (1..n) \ gone} :
        n \in 0..MaxScanRows, gone \in {{}, {3}}, mixed \in BOOLEAN}

\* the filters a scan starts from: no cursor, user and resource given or
\* not, a page size given or left at its default, both directions
ScanFilters ==
    {ReservationFilter(who[1], who[2], StatusPending, 0, size, desc) :
        who \in {<< "", << >> >>, << "u1", <<"a">> >>},
        size \in {0, MinPageSize},
        desc \in BOOLEAN}

InitScan ==
    /\ rows \in ScanTables
    /\ seq = MaxScanRows
    /\ last = Idle
    /\ tasks = NoScan
    /\ chan = NoChannel

NextScan ==
    \/ \E f \in ScanFilters : scan_first(f)
    \/ scan_next
    \/ scan_respond

SpecScan == InitScan /\ [][NextScan]_vars

(* ------------------ query and filter over stored tables ------------------ *)

\* rows of the tables both reads scan
MaxReadRows == 3

\* row id stored by a reserve of user u1 for the window [start, start + 1)
\* seconds: rows with an odd id on resource a, the others on resource b.
read_row(id, start) ==
    [id |-> id,
     user_id |-> "u1",
     resource_id |-> IF id % 2 = 1 THEN <<"a">> ELSE <<"b", ".">>,
     timespan |-> get_timespan(Some(Timestamp(start, 0)), Some(Timestamp(start + 1, 0))),
     note |-> "n1",
     status |-> "pending"]

\* the tables reserve and delete can leave: any of the rows 1..MaxReadRows,
\* their windows in any order, no two rows of a resource overlapping
ReadTables ==
    {t \in {{read_row(id, w[id]) : id \in ids} :
                ids \in SUBSET (1..MaxReadRows), w \in [1..MaxReadRows -> 0..MaxSec]} :
        \A x, y \in t : x # y => ConflictingRows({x}, y) = {}}

\* queries for the pending rows, all of them or those from second 1 on, in
\* both orders
ReadQueries ==
    {ReservationQuery("", << >>, StatusPending, start, None, desc) :
        start \in {None, Some(Timestamp(1, 0))}, desc \in BOOLEAN}

\* filters for the pending rows from a cursor before, on and after the stored
\* ids, in both orders
ReadFilters ==
    {ReservationFilter("", << >>, StatusPending, cursor, MinPageSize, desc) :
        cursor \in {0, 2, MaxReadRows + 1}, desc \in BOOLEAN}

InitRead ==
    /\ rows \in ReadTables
    /\ seq = MaxReadRows
    /\ last = Idle
    /\ tasks = [t \in TaskIds |-> IdleTask]
    /\ chan = NoChannel

NextRead ==
    \/ \E q \in ReadQueries : query(q)
    \/ \E f \in ReadFilters : filter(f)
    \/ respond

SpecRead == InitRead /\ [][NextRead]_vars

(* --------------------------- streaming query --------------------------- *)

\* the capacity of the queue between the reader task and the response stream
ChannelCapacity == 128

\* rows of the largest table a streaming query reads: enough to fill the
\* queue, to leave the reader waiting and to have a row after that one
MaxStreamRows == 130

\* std::task::Poll
Ready(v) == [poll |-> "Ready", val |-> v]

Pending == [poll |-> "Pending"]

\* no query RPC is being served
IdleTasks ==
    [request |-> [pc |-> "idle"],
     reader |-> [pc |-> "none", cursor |-> None, item |-> None, send_failed |-> FALSE]]

\* ORDER BY lower(timespan) ASC or DESC over rows no two of which start at the
\* same instant: the row at place i has i - 1 rows before it
sorted_by_lower(found, desc) ==
    [i \in 1..Cardinality(found) |->
        CHOOSE r \in found :
            Cardinality({o \in found : IF desc THEN o.timespan.lower > r.timespan.lower
                                       ELSE o.timespan.lower < r.timespan.lower}) = i - 1]

\* the streaming read of the query on the table: what the cursor yields, fetch
\* by fetch, the rows of the query in its order and, when the store fails
\* after fault rows, an error at that place
fetch_many(table, q, fault) ==
    LET out == sorted_by_lower(query_rows(table, q), q.desc)
        found == [i \in DOMAIN out |-> Ok(out[i])]
    IN  IF IsSome(fault) /\ Unwrap(fault) <= Len(found)
        THEN SubSeq(found, 1, Unwrap(fault)) \o << Err([kind |-> "Io"]) >>
                \o SubSeq(found, Unwrap(fault) + 1, Len(found))
        ELSE found

\* what the reader task sends for a fetched result: the reservation of a row,
\* the error of a failure
reader_item(fetched) ==
    IF IsOk(fetched) THEN Ok(row_to_reservation(fetched.val))
    ELSE Err(from_sqlx_error(fetched.err))

\* the reader task when it has ended: its cursor and its sender are dropped
reader_done(send_failed) ==
    [pc |-> "done", cursor |-> None, item |-> None, send_failed |-> send_failed]

\* the streaming ReservationManager::query: it makes the channel, spawns the
\* reader task over the cursor, and returns the receiver
query_spawn(results) ==
    /\ chan' = [queue |-> << >>, rx_dropped |-> FALSE, tx_dropped |-> FALSE]
    /\ tasks' = [request |-> [pc |-> "streaming"],
                 reader |-> [pc |-> "fetch", cursor |-> Some(results), item |-> None,
                             send_failed |-> FALSE]]

\* RsvpService::query
service_query(request, fault) ==
    /\ last = Idle
    /\ tasks = IdleTasks
    /\ IF ~IsSome(request.query)
       THEN /\ last' = [op |-> "service_query", arg |-> request, pre |-> rows,
                        res |-> Err(status_from([type |-> "MissingArgument",
                                                 name |-> "missing argument: query"])),
                        calls |-> << >>, sent |-> << >>, items |-> << >>]
            /\ tasks' = [tasks EXCEPT !.request.pc = "failed"]
            /\ UNCHANGED chan
       ELSE /\ query_spawn(fetch_many(rows, Unwrap(request.query), fault))
            /\ last' = [op |-> "service_query", arg |-> request, pre |-> rows,
                        res |-> Ok("stream"),
                        calls |-> << << "query", Unwrap(request.query) >> >>,
                        sent |-> << >>, items |-> << >>]
    /\ UNCHANGED << rows, seq >>

\* the reader task takes the next result from its cursor; at the end of the
\* read the task ends
reader_fetch ==
    /\ tasks.reader.pc = "fetch"
    /\ LET cursor == Unwrap(tasks.reader.cursor)
       IN  IF Len(cursor) = 0
           THEN /\ tasks' = [tasks EXCEPT !.reader = reader_done(FALSE)]
                /\ chan' = [chan EXCEPT !.tx_dropped = TRUE]
           ELSE /\ tasks' = [tasks EXCEPT !.reader.pc = "send",
                                          !.reader.cursor = Some(Tail(cursor)),
                                          !.reader.item = Some(reader_item(Head(cursor)))]
                /\ UNCHANGED chan
    /\ UNCHANGED << rows, seq, last >>

\* variant: a send that does not wait for room in the queue
reader_send_unbounded ==
    /\ tasks.reader.pc = "send"
    /\ IF chan.rx_dropped
       THEN /\ tasks' = [tasks EXCEPT !.reader = reader_done(TRUE)]
            /\ chan' = [chan EXCEPT !.tx_dropped = TRUE]
            /\ UNCHANGED last
       ELSE /\ chan' = [chan EXCEPT !.queue = Append(@, Unwrap(tasks.reader.item))]
            /\ tasks' = [tasks EXCEPT !.reader.pc = "fetch", !.reader.item = None]
            /\ last' = [last EXCEPT !.sent = Append(@, Unwrap(tasks.reader.item))]
    /\ UNCHANGED << rows, seq >>

\* tx.send(item).await of the reader task: it fails when the receiver was
\* dropped, and the task ends; it waits while the queue is full; otherwise the
\* item is queued and the task goes on to its next fetch
reader_send ==
    /\ tasks.reader.pc = "send"
    /\ IF chan.rx_dropped
       THEN /\ tasks' = [tasks EXCEPT !.reader = reader_done(TRUE)]
            /\ chan' = [chan EXCEPT !.tx_dropped = TRUE]
            /\ UNCHANGED last
       ELSE /\ Len(chan.queue) < ChannelCapacity
            /\ chan' = [chan EXCEPT !.queue = Append(@, Unwrap(tasks.reader.item))]
            /\ tasks' = [tasks EXCEPT !.reader.pc = "fetch", !.reader.item = None]
            /\ last' = [last EXCEPT !.sent = Append(@, Unwrap(tasks.reader.item))]
    /\ UNCHANGED << rows, seq >>

\* mpsc::Receiver::poll_recv: the head of the queue; None when the queue is
\* empty and the sender was dropped; Pending when it is empty and was not
poll_recv(c) ==
    IF Len(c.queue) > 0 THEN Ready(Some(Head(c.queue)))
    ELSE IF c.tx_dropped THEN Ready(None) ELSE Pending

\* variant: a stream that ends at the first error
poll_next_end_on_error(polled) ==
    IF polled = Pending THEN Pending
    ELSE IF ~IsSome(polled.val) THEN Ready(None)
    ELSE IF IsOk(Unwrap(polled.val)) THEN Ready(Some(Ok(Unwrap(polled.val).val)))
    ELSE Ready(None)

\* TonicReceiverStream::poll_next on what poll_recv returned
poll_next(polled) ==
    IF polled = Pending THEN Pending
    ELSE IF ~IsSome(polled.val) THEN Ready(None)
    ELSE IF IsOk(Unwrap(polled.val)) THEN Ready(Some(Ok(Unwrap(polled.val).val)))
    ELSE Ready(Some(Err(status_from(Unwrap(polled.val).err))))

\* variant: a poll that hands the head of the queue over and leaves it there
stream_next_peek ==
    /\ tasks.request.pc = "streaming"
    /\ LET polled == poll_next(poll_recv(chan))
       IN  /\ polled # Pending
           /\ IF IsSome(polled.val)
              THEN /\ Len(last.items) < Len(last.sent) + 1
                   /\ last' = [last EXCEPT !.items = Append(@, Unwrap(polled.val))]
                   /\ UNCHANGED << tasks, chan >>
              ELSE /\ tasks' = [tasks EXCEPT !.request.pc = "ended"]
                   /\ UNCHANGED << last, chan >>
    /\ UNCHANGED << rows, seq >>

\* the request task polls the response stream: an item is taken from the
\* queue and goes to the client, or the stream ends
stream_next ==
    /\ tasks.request.pc = "streaming"
    /\ LET polled == poll_next(poll_recv(chan))
       IN  /\ polled # Pending
           /\ IF IsSome(polled.val)
              THEN /\ last' = [last EXCEPT !.items = Append(@, Unwrap(polled.val))]
                   /\ chan' = [chan EXCEPT !.queue = Tail(@)]
                   /\ UNCHANGED tasks
              ELSE /\ tasks' = [tasks EXCEPT !.request.pc = "ended"]
                   /\ UNCHANGED << last, chan >>
    /\ UNCHANGED << rows, seq >>

\* variant: a drop of the request task that leaves the receiver alive
client_drop_keep_receiver ==
    /\ tasks.request.pc = "streaming"
    /\ tasks' = [tasks EXCEPT !.request.pc = "dropped"]
    /\ UNCHANGED << rows, seq, last, chan >>

\* the client goes away: the request task is dropped, and with it the stream,
\* its receiver and the items still in the queue
client_drop ==
    /\ tasks.request.pc = "streaming"
    /\ tasks' = [tasks EXCEPT !.request.pc = "dropped"]
    /\ chan' = [chan EXCEPT !.queue = << >>, !.rx_dropped = TRUE]
    /\ UNCHANGED << rows, seq, last >>

\* the RPC is over and its reader task has ended
stream_close ==
    /\ tasks.request.pc \in {"ended", "dropped", "failed"}
    /\ tasks.reader.pc \in {"none", "done"}
    /\ tasks' = IdleTasks
    /\ chan' = NoChannel
    /\ last' = Idle
    /\ UNCHANGED << rows, seq >>

\* the tables a streaming query reads: none, one or two rows, or as many as
\* fill the queue and two more
StreamTables ==
    {{filter_row(id, FALSE) : id \in 1..n} : n \in {0, 1, 2, MaxStreamRows}}

\* query requests: without a query, and for the pending rows
QueryRequests ==
    {[query |-> None],
     [query |-> Some(ReservationQuery("", << >>, StatusPending, None, None, FALSE))]}

\* the store answers every fetch, or fails once after the first row
StreamFaults == {None, Some(1)}

InitStream ==
    /\ rows \in StreamTables
    /\ seq = MaxStreamRows
    /\ last = Idle
    /\ tasks = IdleTasks
    /\ chan = NoChannel

NextStream ==
    \/ \E request \in QueryRequests, fault \in StreamFaults : service_query(request, fault)
    \/ reader_fetch
    \/ reader_send
    \/ stream_next
    \/ client_drop
    \/ stream_close

SpecStream == InitStream /\ [][NextStream]_vars

\* the runtime runs the reader task whenever it can take a step
SpecStreamFair == SpecStream /\ WF_vars(reader_fetch) /\ WF_vars(reader_send)

(* ------------------------------ the service ----------------------------- *)

\* an RPC was served: its request, its result, and the calls it made to the
\* manager
Served(op, request, res, calls) ==
    /\ last = Idle
    /\ tasks = IdleTasks
    /\ last' = [op |-> op, arg |-> request, res |-> res, pre |-> rows, calls |-> calls]
    /\ UNCHANGED << tasks, chan >>

\* RsvpService::reserve of service.rs
service_reserve(request) ==
    IF ~IsSome(request.reservation)
    THEN /\ Served("service_reserve", request,
                   Err(status_from([type |-> "MissingArgument", name |-> "reservation"])),
                   << >>)
         /\ UNCHANGED << rows, seq >>
    ELSE LET rsvp == Unwrap(request.reservation)
         IN  \E o \in reserve_result(rows, seq, rsvp) :
                /\ o.seq <= MaxId
                /\ rows' = o.rows
                /\ seq' = o.seq
                /\ Served("service_reserve", request,
                          IF IsOk(o.res) THEN Ok([reservation |-> Some(o.res.val)])
                          ELSE Err(status_from(o.res.err)),
                          << << "reserve", rsvp >> >>)

\* RsvpService::reserve of lib.rs: a request with a reservation is refused,
\* and the unwrap of one without panics
lib_reserve(request) ==
    /\ Served("lib_reserve", request,
              IF IsSome(request.reservation)
              THEN Err(Status("InvalidArgument", << "missing reservation" >>))
              ELSE Panic,
              << >>)
    /\ UNCHANGED << rows, seq >>

\* RsvpService::filter
service_filter(request) ==
    /\ IF ~IsSome(request.filter)
       THEN Served("service_filter", request,
                   Err(status_from([type |-> "MissingArgument", name |-> "filter"])),
                   << >>)
       ELSE LET f == Unwrap(request.filter)
                res == filter_result(rows, f)
            IN  Served("service_filter", request,
                       IF IsOk(res) THEN Ok([reservations |-> res.val.reservations,
                                             pager |-> Some(res.val.pager)])
                       ELSE Err(status_from(res.err)),
                       << << "filter", f >> >>)
    /\ UNCHANGED << rows, seq >>

\* RsvpService::listen: todo!() panics on every call
service_listen(request) ==
    /\ Served("service_listen", request, Panic, << >>)
    /\ UNCHANGED << rows, seq >>

\* the response of a unary RPC reaches the client
service_respond ==
    /\ tasks = IdleTasks
    /\ respond

\* reserve requests: without a reservation, with one for the window [s, s + 1)
\* of resource a, and with one that has no user
ReserveRequests ==
    {[reservation |-> None]}
    \cup {[reservation |-> Some(Reservation(uid, <<"a">>, Some(Timestamp(s, 0)),
                                            Some(Timestamp(s + 1, 0)), "n1", StatusPending))] :
            uid \in UserIds, s \in 0..(MaxSec - 1)}

\* filter requests: without a filter, and for the pending rows from a cursor
FilterRequests ==
    {[filter |-> None]}
    \cup {[filter |-> Some(f)] : f \in ReadFilters}

\* the listen request has no field
ListenRequests == {[message |-> "ListenRequest"]}

InitService ==
    /\ rows = {}
    /\ seq = 0
    /\ last = Idle
    /\ tasks = IdleTasks
    /\ chan = NoChannel

NextService ==
    \/ \E request \in ReserveRequests : service_reserve(request)
    \/ \E request \in ReserveRequests : lib_reserve(request)
    \/ \E request \in QueryRequests, fault \in StreamFaults : service_query(request, fault)
    \/ reader_fetch
    \/ reader_send
    \/ stream_next
    \/ client_drop
    \/ stream_close
    \/ \E request \in FilterRequests : service_filter(request)
    \/ \E request \in ListenRequests : service_listen(request)
    \/ service_respond

SpecService == InitService /\ [][NextService]_vars

(* ============================== claims ================================= *)

\* a < b as instants: seconds, then nanoseconds
TsBefore(a, b) == a.seconds < b.seconds \/ (a.seconds = b.seconds /\ a.nanos < b.nanos)

\* the half-open windows [start, end) of two reservations overlap
WindowsOverlap(x, y) ==
    /\ TsBefore(Unwrap(x.start), Unwrap(y.end))
    /\ TsBefore(Unwrap(y.start), Unwrap(x.end))

\* the stored rows as reservations, as get returns them
Stored(table) == {row_to_reservation(r) : r \in table}

ActiveStatuses == {StatusPending, StatusConfirmed}

\* a stored reservation on the resource of x whose window overlaps x's
OverlapsIn(table, x) ==
    {y \in Stored(table) : y.resource_id = x.resource_id /\ WindowsOverlap(x, y)}

\* the call whose response is on its way is a call of op
Called(op) == last.op = op

(* C1: for every resource, the windows of the stored rows with that resource *)
(* and status pending or confirmed are pairwise non-overlapping as          *)
(* half-open intervals, after any sequence of calls.                        *)
C1_NoOverlap ==
    \A x, y \in Stored(rows) :
        (x # y /\ x.resource_id = y.resource_id
            /\ x.status \in ActiveStatuses /\ y.status \in ActiveStatuses)
        => ~WindowsOverlap(x, y)

\* two active rows on one resource, one window starting where the other ends,
\* one of them confirmed, after a reserve that succeeded
C1_Witness ==
    /\ Called("reserve") /\ IsOk(last.res)
    /\ \E x, y \in Stored(rows) :
          /\ x.id # y.id /\ x.resource_id = y.resource_id
          /\ x.status = StatusConfirmed /\ y.status = StatusPending
          /\ x.end = y.start

(* C2: a reserve whose window overlaps a stored row on the same resource     *)
(* fails with ConflictReservation carrying a parsed conflict whose new       *)
(* window is the request's and whose old window is that of a stored row it   *)
(* overlaps.                                                                 *)
C2_ConflictSurfacing ==
    (/\ Called("reserve")
     /\ IsOk(validate_reservation(last.arg))
     /\ OverlapsIn(last.pre, last.arg) # {})
    => /\ ErrIs(last.res, "ConflictReservation")
       /\ last.res.err.info.variant = "Parsed"
       /\ last.res.err.info.conflict.new =
             [rid |-> last.arg.resource_id,
              start |-> convert_to_utc_time(Unwrap(last.arg.start)),
              end |-> convert_to_utc_time(Unwrap(last.arg.end))]
       /\ \E y \in OverlapsIn(last.pre, last.arg) :
             last.res.err.info.conflict.old =
                 [rid |-> y.resource_id,
                  start |-> convert_to_utc_time(Unwrap(y.start)),
                  end |-> convert_to_utc_time(Unwrap(y.end))]

(* C3: two reserve calls on one resource with overlapping windows that run   *)
(* concurrently against a table holding no row in conflict with either: one  *)
(* succeeds and the other fails with ConflictReservation, in every           *)
(* interleaving.                                                             *)
C3_OneWinner ==
    \A t, u \in TaskIds :
        (/\ t # u
         /\ tasks[t].pc = "done" /\ tasks[u].pc = "done"
         /\ tasks[t].conc /\ tasks[u].conc
         /\ tasks[t].rsvp.resource_id = tasks[u].rsvp.resource_id
         /\ WindowsOverlap(tasks[t].rsvp, tasks[u].rsvp)
         /\ OverlapsIn(tasks[t].snap, tasks[t].rsvp) = {}
         /\ OverlapsIn(tasks[t].snap, tasks[u].rsvp) = {})
        => \/ IsOk(tasks[t].res) /\ ErrIs(tasks[u].res, "ConflictReservation")
           \/ IsOk(tasks[u].res) /\ ErrIs(tasks[t].res, "ConflictReservation")

\* both calls were in flight together over a table that already held a row,
\* the second task's statement ran first and won
C3_Witness ==
    /\ tasks[1].pc = "done" /\ tasks[2].pc = "done"
    /\ tasks[1].conc /\ tasks[2].conc
    /\ tasks[1].snap # {}
    /\ tasks[1].rsvp.resource_id = tasks[2].rsvp.resource_id
    /\ tasks[1].rsvp # tasks[2].rsvp
    /\ WindowsOverlap(tasks[1].rsvp, tasks[2].rsvp)
    /\ OverlapsIn(tasks[1].snap, tasks[1].rsvp) = {}
    /\ OverlapsIn(tasks[1].snap, tasks[2].rsvp) = {}
    /\ IsOk(tasks[2].res) /\ ErrIs(tasks[1].res, "ConflictReservation")

(* C4: a reserve that passes validation succeeds exactly when no stored      *)
(* pending or confirmed row of the same resource has a window overlapping    *)
(* the request's.                                                            *)
C4_SucceedsIffNoActiveOverlap ==
    (Called("reserve") /\ IsOk(validate_reservation(last.arg)))
    => (IsOk(last.res) <=>
           {y \in OverlapsIn(last.pre, last.arg) : y.status \in ActiveStatuses} = {})

(* C5: a successful reserve stores exactly one new row, in status pending    *)
(* whatever status the request carried, with the request's user, resource,   *)
(* window and note, and returns it with the id assigned; get on that id      *)
(* returns those fields with status pending.                                 *)
C5_StoresPending ==
    (Called("reserve") /\ IsOk(last.res))
    => /\ \E r \in rows :
             /\ r \notin last.pre
             /\ rows = last.pre \cup {r}
             /\ r.id = last.res.val.id
       /\ fetch_one(RowsWithId(rows, last.res.val.id)) =
             Ok([last.arg EXCEPT !.id = last.res.val.id, !.status = StatusPending])

(* C6: no stored row has status unknown, in every reachable state.           *)
C6_NoUnknownRow == \A x \in Stored(rows) : x.status # StatusUnknown

(* C7: change_status(id) with id > 0 sets the status to confirmed and        *)
(* returns the updated row exactly when a row with that id exists and is     *)
(* pending; otherwise it returns NotFound and leaves the table unchanged,    *)
(* so a second change_status on the id returns NotFound.                     *)
C7_ChangeStatus ==
    (Called("change_status") /\ last.arg > 0)
    => LET hit == {r \in last.pre : r.id = last.arg /\ r.status = "pending"}
       IN  IF hit # {}
           THEN /\ \E r \in hit :
                      /\ rows = (last.pre \ {r}) \cup {[r EXCEPT !.status = "confirmed"]}
                      /\ last.res = Ok([row_to_reservation(r) EXCEPT !.status = StatusConfirmed])
                /\ {r \in rows : r.id = last.arg /\ r.status = "pending"} = {}
           ELSE /\ ErrIs(last.res, "NotFound")
                /\ rows = last.pre

\* the second change_status on a row: it is stored, confirmed, and the call
\* returned NotFound
C7_Witness ==
    /\ Called("change_status")
    /\ ErrIs(last.res, "NotFound")
    /\ \E r \in last.pre : r.id = last.arg /\ r.status = "confirmed"

(* C8: the status of a stored row changes only from pending to confirmed     *)
(* and only in change_status: a confirmed row never becomes pending again,   *)
(* no row is ever in status blocked, and reserve, update_note, delete, get   *)
(* and query leave the status of every row they keep as it was.              *)
C8_StatusMonotone ==
    /\ \A r \in rows : r.status # "blocked"
    /\ last # Idle
       => \A r \in last.pre, r2 \in rows :
             (r.id = r2.id /\ r.status # r2.status)
             => /\ Called("change_status")
                /\ r.id = last.arg
                /\ r.status = "pending"
                /\ r2.status = "confirmed"

(* C9: update_note(id, note) on a stored row replaces the note of that row   *)
(* only: its other fields and every other row are unchanged, and the row     *)
(* returned carries the new note; with no row of that id it returns NotFound *)
(* and changes nothing.                                                      *)
C9_UpdateNote ==
    (Called("update_note") /\ last.arg[1] > 0)
    => LET hit == {r \in last.pre : r.id = last.arg[1]}
       IN  IF hit # {}
           THEN \E r \in hit :
                   /\ rows = (last.pre \ {r}) \cup {[r EXCEPT !.note = last.arg[2]]}
                   /\ last.res = Ok([row_to_reservation(r) EXCEPT !.note = last.arg[2]])
           ELSE /\ ErrIs(last.res, "NotFound")
                /\ rows = last.pre

\* the note of one of two stored rows was replaced by another note
C9_Witness ==
    /\ Called("update_note") /\ IsOk(last.res)
    /\ Cardinality(rows) = 2
    /\ \E r \in last.pre : r.id = last.arg[1] /\ r.note # last.arg[2]

(* C10: after a delete that succeeded, the row of that id is not stored,     *)
(* whatever its status was, and every other row is unchanged; get on an id   *)
(* that is not stored returns NotFound and query returns stored rows only.   *)
C10_Cancel ==
    /\ (Called("delete") /\ IsOk(last.res))
       => /\ rows = {r \in last.pre : r.id # last.arg}
          /\ fetch_one(RowsWithId(rows, last.arg)) = Err([type |-> "NotFound"])
          /\ \A q \in Queries : \A r \in query_rows(rows, q) : r.id # last.arg
    /\ (Called("get") /\ last.arg > 0 /\ RowsWithId(last.pre, last.arg) = {})
       => ErrIs(last.res, "NotFound")
    /\ (Called("query") /\ IsOk(last.res))
       => \A i \in DOMAIN last.res.val : last.res.val[i] \in Stored(last.pre)

\* a confirmed row that a query returned was deleted, another row is kept
C10_Witness ==
    /\ Called("delete") /\ IsOk(last.res)
    /\ rows # {}
    /\ \E r \in last.pre :
          /\ r.id = last.arg
          /\ r.status = "confirmed"
          /\ \E q \in Queries : r \in query_rows(last.pre, q)

\* the id a call on one reservation was made with
CallId == IF last.op = "update_note" THEN last.arg[1] ELSE last.arg

(* C11: cancel(id) returns the removed row, with the fields it had when it   *)
(* was removed, when a row with that id is stored, and returns NotFound and  *)
(* leaves the table unchanged when no row has that id.                       *)
C11_CancelReturnsRow ==
    (Called("delete") /\ last.arg > 0)
    => IF RowsWithId(last.pre, last.arg) # {}
       THEN \E r \in RowsWithId(last.pre, last.arg) :
               /\ last.res = Ok(row_to_reservation(r))
               /\ rows = last.pre \ {r}
       ELSE /\ ErrIs(last.res, "NotFound")
            /\ rows = last.pre

(* C12: change_status, update_note, cancel and get with id <= 0 return       *)
(* InvalidReservationId(id) and leave the table unchanged; with id > 0 and   *)
(* no row of that id they return NotFound.                                   *)
C12_IdValidation ==
    last.op \in {"change_status", "update_note", "delete", "get"}
    => /\ CallId <= 0
          => /\ last.res = Err([type |-> "InvalidReservationId", id |-> CallId])
             /\ rows = last.pre
       /\ (CallId > 0 /\ RowsWithId(last.pre, CallId) = {})
          => ErrIs(last.res, "NotFound")

(* C13: reserve rejects an invalid request and leaves the table unchanged:   *)
(* an empty user_id gives InvalidUserId; otherwise an empty resource_id      *)
(* gives InvalidResourceId; otherwise a missing start, a missing end or a    *)
(* start that is not before the end gives InvalidTimespan.                   *)
C13_ReserveValidation ==
    Called("reserve")
    => LET r == last.arg
           rejected(type) == ErrIs(last.res, type) /\ rows = last.pre
       IN  IF r.user_id = "" THEN rejected("InvalidUserId")
           ELSE IF Len(r.resource_id) = 0 THEN rejected("InvalidResourceId")
           ELSE (\/ ~IsSome(r.start)
                 \/ ~IsSome(r.end)
                 \/ ~TsBefore(Unwrap(r.start), Unwrap(r.end)))
                => rejected("InvalidTimespan")

\* a request whose window starts where it ends was rejected with
\* InvalidTimespan while the table held a row
C13_Witness ==
    /\ Called("reserve")
    /\ ErrIs(last.res, "InvalidTimespan")
    /\ IsSome(last.arg.start) /\ last.arg.start = last.arg.end
    /\ rows # {}

(* C14: the window check of a reservation accepts a window exactly when     *)
(* start and end are both present and start is strictly earlier than end as *)
(* instants, seconds and nanoseconds together; every other window is        *)
(* rejected with InvalidTimespan.                                            *)
C14_ValidateRange ==
    Called("validate_range")
    => LET start == last.arg[1]
           end == last.arg[2]
       IN  IF IsSome(start) /\ IsSome(end) /\ TsBefore(Unwrap(start), Unwrap(end))
           THEN IsOk(last.res)
           ELSE ErrIs(last.res, "InvalidTimespan")

(* C16: the validation of a query fails with InvalidStatus when the status   *)
(* does not decode and with InvalidTimespan when start and end are both      *)
(* present and start is later than end; it accepts every query with a        *)
(* decodable status in which start or end is absent or start is not later    *)
(* than end, start equal to end included.                                    *)
C16_ValidateQuery ==
    Called("validate_query")
    => LET q == last.arg
           inverted == /\ IsSome(q.start) /\ IsSome(q.end)
                       /\ TsBefore(Unwrap(q.end), Unwrap(q.start))
       IN  IF ~IsSome(from_i32(q.status)) THEN ErrIs(last.res, "InvalidStatus")
           ELSE IF inverted THEN ErrIs(last.res, "InvalidTimespan")
           ELSE IsOk(last.res)

(* C17: normalize on a query or a filter validates first and, on a           *)
(* validation error, returns that error and leaves the message unchanged;    *)
(* otherwise it replaces the status unknown by pending and changes no other  *)
(* field; normalizing the result again changes nothing.                      *)
C17_Normalize ==
    /\ Called("normalize_query")
       => LET q == last.arg
              out == last.res
          IN  IF IsErr(validate_query(q))
              THEN out.res = validate_query(q) /\ out.msg = q
              ELSE /\ IsOk(out.res)
                   /\ out.msg = [q EXCEPT !.status = IF q.status = StatusUnknown
                                                     THEN StatusPending ELSE q.status]
                   /\ normalize_query(out.msg) = out
    /\ Called("normalize_filter")
       => LET f == last.arg
              out == last.res
          IN  IF IsErr(validate_filter(f))
              THEN out.res = validate_filter(f) /\ out.msg = f
              ELSE /\ IsOk(out.res)
                   /\ out.msg = [f EXCEPT !.status = IF f.status = StatusUnknown
                                                     THEN StatusPending ELSE f.status]
                   /\ normalize_filter(out.msg) = out

\* a valid filter with status unknown, a cursor and the largest page size was
\* normalized to status pending
C17_Witness ==
    /\ Called("normalize_filter")
    /\ IsOk(last.res.res)
    /\ last.arg.status = StatusUnknown
    /\ last.res.msg.status = StatusPending
    /\ last.arg.page_size = MaxPageSize
    /\ IsSome(last.arg.cursor)

ValidFilter(f) ==
    /\ f.page_size >= MinPageSize /\ f.page_size <= MaxPageSize
    /\ f.cursor >= 0
    /\ IsSome(from_i32(f.status))

\* the stored reservations of the user and the resource of the filter, when
\* these are given, that have the status st
FilterMatches(table, f, st) ==
    {r \in Stored(table) :
        /\ f.user_id = "" \/ r.user_id = f.user_id
        /\ Len(f.resource_id) = 0 \/ r.resource_id = f.resource_id
        /\ r.status = st}

(* C15: filter rejects, without reading the table, a filter whose page_size  *)
(* is below 10 or above 100 with InvalidPageSize(page_size), whose cursor is *)
(* negative with InvalidCursor(cursor), or whose status does not decode with *)
(* InvalidStatus(status); every other filter is accepted.                    *)
C15_FilterValidation ==
    Called("filter")
    => LET f == last.arg
       IN  IF f.page_size < MinPageSize \/ f.page_size > MaxPageSize
           THEN last.res = Err([type |-> "InvalidPageSize", page_size |-> f.page_size])
           ELSE IF f.cursor < 0
                THEN last.res = Err([type |-> "InvalidCursor", cursor |-> f.cursor])
                ELSE IF ~IsSome(from_i32(f.status))
                     THEN last.res = Err([type |-> "InvalidStatus", status |-> f.status])
                     ELSE IsOk(last.res)

C20_FilterCursor ==
    (Called("filter") /\ IsOk(last.res))
    => LET f == last.arg
           page == last.res.val.reservations
           beyond == {r \in FilterMatches(last.pre, f, unwrap_or(from_i32(f.status), StatusPending)) :
                         IF f.desc THEN r.id < f.cursor ELSE r.id > f.cursor}
       IN  /\ \A i \in DOMAIN page : page[i] \in beyond
           /\ \A i, j \in DOMAIN page :
                 i < j => IF f.desc THEN page[i].id > page[j].id ELSE page[i].id < page[j].id
           /\ beyond # {} => Len(page) > 0
           /\ Len(page) > 0
              => \A r \in beyond :
                    /\ IF f.desc THEN r.id <= page[1].id ELSE r.id >= page[1].id
                    /\ (IF f.desc THEN r.id >= page[Len(page)].id ELSE r.id <= page[Len(page)].id)
                       => \E i \in DOMAIN page : page[i] = r

\* a descending scan from cursor 3, a stored row that matches the filter: the
\* page is the rows 2 and 1 and the pager names the cursor's row as prev
C20_Witness ==
    /\ Called("filter") /\ IsOk(last.res)
    /\ last.arg.desc /\ last.arg.cursor = 3
    /\ last.res.val.pager.prev = 3
    /\ Len(last.res.val.reservations) = 2
    /\ last.res.val.reservations[1].id = 2
    /\ last.res.val.reservations[2].id = 1
    /\ Cardinality(last.pre) > 3

(* C21: the pager of filter has next set exactly when matching rows exist   *)
(* beyond the returned page in the direction of the scan, and next is then   *)
(* the id of the last reservation of the page.                               *)
C21_PagerNext ==
    (Called("filter") /\ IsOk(last.res))
    => LET f == last.arg
           page == last.res.val.reservations
           pager == last.res.val.pager
           edge == IF Len(page) > 0 THEN page[Len(page)].id ELSE f.cursor
           more == {r \in FilterMatches(last.pre, f, unwrap_or(from_i32(f.status), StatusPending)) :
                       IF f.desc THEN r.id < edge ELSE r.id > edge}
       IN  /\ (pager.next # -1) <=> (more # {})
           /\ pager.next # -1 => (Len(page) > 0 /\ pager.next = page[Len(page)].id)

\* an ascending scan of eleven matching rows from cursor 0 with page size 10:
\* the page is the rows 1..10 and next is 10, the row 11 lying beyond it
C21_Witness ==
    /\ Called("filter") /\ IsOk(last.res)
    /\ ~last.arg.desc /\ last.arg.cursor = 0 /\ last.arg.page_size = MinPageSize
    /\ Len(last.res.val.reservations) = MinPageSize
    /\ last.res.val.pager.next = MinPageSize
    /\ Cardinality(last.pre) = MinPageSize + 1

(* C22: the pager of filter has prev set exactly when the filter supplied a  *)
(* cursor (a positive id; 0 is the value of a filter that names none), and   *)
(* prev is then that cursor; without a cursor prev is not set.               *)
C22_PagerPrev ==
    (Called("filter") /\ IsOk(last.res))
    => LET f == last.arg
           pager == last.res.val.pager
       IN  IF f.cursor > 0 THEN pager.prev = f.cursor ELSE pager.prev = -1

\* the stored reservations a query asks for: those with its status, unknown
\* standing for pending, of its user and of its resource when these are given,
\* whose window lies within [start, end], an absent bound being no bound
QueryMatches(table, q) ==
    LET status == IF q.status = StatusUnknown THEN StatusPending ELSE q.status
    IN  {x \in Stored(table) :
            /\ x.status = status
            /\ q.user_id = "" \/ x.user_id = q.user_id
            /\ Len(q.resource_id) = 0 \/ x.resource_id = q.resource_id
            /\ ~IsSome(q.start) \/ ~TsBefore(Unwrap(x.start), Unwrap(q.start))
            /\ ~IsSome(q.end) \/ ~TsBefore(Unwrap(q.end), Unwrap(x.end))}

(* C23: query returns exactly the stored rows whose status is the query's,   *)
(* unknown treated as pending, whose user_id and resource_id are the query's *)
(* when these are non-empty, and whose window lies within the query's        *)
(* [start, end], an absent start or end meaning no bound on that side.       *)
C23_QueryResult ==
    (Called("query") /\ IsOk(last.res))
    => LET out == last.res.val
       IN  /\ {out[i] : i \in DOMAIN out} = QueryMatches(last.pre, last.arg)
           /\ \A i, j \in DOMAIN out : i # j => out[i] # out[j]

(* C24: the reservations query returns are in the order of their window     *)
(* starts and those filter returns in the order of their ids, ascending when *)
(* desc is false and descending when desc is true.                           *)
C24_Ordering ==
    /\ (Called("query") /\ IsOk(last.res))
       => LET out == last.res.val
          IN  \A i, j \in DOMAIN out :
                 i < j => IF last.arg.desc
                          THEN ~TsBefore(Unwrap(out[i].start), Unwrap(out[j].start))
                          ELSE ~TsBefore(Unwrap(out[j].start), Unwrap(out[i].start))
    /\ (Called("filter") /\ IsOk(last.res))
       => LET page == last.res.val.reservations
          IN  \A i, j \in DOMAIN page :
                 i < j => IF last.arg.desc THEN page[i].id > page[j].id
                          ELSE page[i].id < page[j].id

\* a descending query over three rows whose windows start in the order of
\* the ids 2, 3, 1: the rows come back as 1, 3, 2
C24_Witness ==
    /\ Called("query") /\ IsOk(last.res) /\ last.arg.desc
    /\ Len(last.res.val) = 3
    /\ last.res.val[1].id = 1 /\ last.res.val[2].id = 3 /\ last.res.val[3].id = 2
    /\ TsBefore(Unwrap(last.res.val[3].start), Unwrap(last.res.val[2].start))
    /\ TsBefore(Unwrap(last.res.val[2].start), Unwrap(last.res.val[1].start))

\* a descending filter from a cursor after the rows 1..3: the page is 3, 2, 1
C24_WitnessFilter ==
    /\ Called("filter") /\ IsOk(last.res) /\ last.arg.desc
    /\ last.arg.cursor = MaxReadRows + 1
    /\ Len(last.res.val.reservations) = 3
    /\ last.res.val.reservations[1].id = 3 /\ last.res.val.reservations[3].id = 1

(* C30: every error maps to one RPC status: InvalidTimespan, InvalidUserId,  *)
(* InvalidResourceId, InvalidReservationId, InvalidPageSize, InvalidCursor,  *)
(* InvalidStatus and MissingArgument to invalid-argument, NotFound to        *)
(* not-found, ConflictReservation to already-exists, DbError,                *)
(* ConfigReadError, ConfigParseError and Unknown to internal.                *)
C30_StatusMapping ==
    Called("status_from")
    => LET type == last.arg.type
           code == last.res.code
       IN  /\ type \in {"InvalidTimespan", "InvalidUserId", "InvalidResourceId",
                        "InvalidReservationId", "InvalidPageSize", "InvalidCursor",
                        "InvalidStatus", "MissingArgument"} => code = "InvalidArgument"
           /\ type = "NotFound" => code = "NotFound"
           /\ type = "ConflictReservation" => code = "AlreadyExists"
           /\ type \in {"DbError", "ConfigReadError", "ConfigParseError", "Unknown"}
              => code = "Internal"
           /\ code \in {"InvalidArgument", "NotFound", "AlreadyExists", "Internal"}

\* the conflict of two reservations of a resource, its windows parsed,
\* converted: the status is already-exists
C30_Witness ==
    /\ Called("status_from")
    /\ last.arg.type = "ConflictReservation" /\ last.arg.info.variant = "Parsed"
    /\ last.res.code = "AlreadyExists"

(* C25: the queue between the reader task of a query and the response       *)
(* stream never holds more than 128 items: with the queue full, the reader   *)
(* holds its item until the consumer has taken one.                          *)
C25_QueueBound == Len(chan.queue) <= 128

\* the queue holds 128 items, the client is there, and the reader task is in
\* its send with the next item in hand
C25_Witness ==
    /\ Len(chan.queue) = 128
    /\ ~chan.rx_dropped
    /\ tasks.reader.pc = "send"
    /\ IsSome(tasks.reader.item)

\* the reader task of a query is running
ReaderRunning == tasks.reader.pc \in {"fetch", "send"}

\* the reader task has ended and holds no cursor
ReaderEnded == tasks.reader.pc = "done" /\ ~IsSome(tasks.reader.cursor)

(* C26: when the client end of a streaming query is dropped while the reader *)
(* task is running, the next send of the reader fails, whether or not it was *)
(* waiting on a full queue, and the reader task then ends and releases its   *)
(* cursor; after a failed send, and after the drop, no item is sent.         *)
C26_DropEndsReader ==
    /\ [](tasks.request.pc = "dropped" => (chan.rx_dropped /\ chan.queue = << >>))
    /\ [](tasks.reader.send_failed => (ReaderEnded /\ chan.rx_dropped))
    /\ [][(chan.rx_dropped /\ tasks.reader.pc = "send" /\ tasks'.reader # tasks.reader)
            => (tasks'.reader.send_failed /\ last'.sent = last.sent)]_vars
    /\ ((tasks.request.pc = "dropped" /\ ReaderRunning) ~> ReaderEnded)

\* the client went away with nothing taken and 128 items sent, the queue
\* full and the reader waiting: its send failed and it has ended
C26_Witness ==
    /\ chan.rx_dropped
    /\ tasks.reader.send_failed
    /\ ReaderEnded
    /\ Len(last.sent) = 128
    /\ Len(last.items) = 0

\* a streaming query is being served, or was
Streamed == Called("service_query") /\ IsOk(last.res)

\* the items of a stream that are reservations
StreamedRows(items) == SelectSeq(items, IsOk)

(* C27: the response stream of a query yields the items the reader task put  *)
(* on the queue, in that order, each once, and ends exactly when the reader  *)
(* has ended and the queue is empty; over one matching row it yields that    *)
(* row and ends, over none it ends with nothing yielded.                     *)
C27_StreamItems ==
    Streamed
    => LET sent == last.sent
           items == last.items
       IN  /\ Len(items) <= Len(sent)
           /\ \A i \in DOMAIN items :
                 IF IsOk(sent[i]) THEN items[i] = sent[i] ELSE IsErr(items[i])
           /\ ~chan.rx_dropped
              => /\ Len(items) + Len(chan.queue) = Len(sent)
                 /\ \A j \in DOMAIN chan.queue : chan.queue[j] = sent[Len(items) + j]
           /\ tasks.request.pc = "streaming"
              => ((poll_next(poll_recv(chan)) = Ready(None))
                    <=> (tasks.reader.pc = "done" /\ chan.queue = << >>))
           /\ tasks.request.pc = "ended"
              => /\ tasks.reader.pc = "done" /\ ~tasks.reader.send_failed
                 /\ chan.queue = << >>
                 /\ Len(items) = Len(sent)
                 /\ LET found == StreamedRows(items)
                        matches == QueryMatches(last.pre, Unwrap(last.arg.query))
                    IN  /\ Len(found) = Cardinality(matches)
                        /\ \A k \in DOMAIN found : found[k].val \in matches
                        /\ \A k, l \in DOMAIN found : k # l => found[k] # found[l]

\* a query over a table of one row, which matches: the stream yielded the
\* row and ended
C27_Witness ==
    /\ Streamed
    /\ tasks.request.pc = "ended"
    /\ Cardinality(last.pre) = 1
    /\ Len(last.items) = 1
    /\ IsOk(last.items[1]) /\ last.items[1].val \in Stored(last.pre)

(* C28: an error the reader task puts on the queue reaches the client as an  *)
(* error item that carries the RPC status of the error, and it does not end  *)
(* the stream: the items sent after it are delivered too, in order, and the  *)
(* stream ends only when the reader has ended.                               *)
C28_StreamErrors ==
    Streamed
    => LET sent == last.sent
           items == last.items
       IN  /\ \A i \in DOMAIN items :
                 IF IsErr(sent[i])
                 THEN /\ IsErr(items[i])
                      /\ sent[i].err.type = "DbError"
                      /\ items[i].err = [code |-> "Internal", message |-> << "database error" >>]
                 ELSE items[i] = sent[i]
           /\ (tasks.request.pc = "streaming" /\ chan.queue # << >>)
              => poll_next(poll_recv(chan)).val # None
           /\ tasks.request.pc = "ended"
              => (tasks.reader.pc = "done" /\ Len(items) = Len(sent))

\* the store failed after the first of two rows: the stream yielded the row,
\* the error as an internal status and then the second row, and ended
C28_Witness ==
    /\ Streamed
    /\ tasks.request.pc = "ended"
    /\ Len(last.items) = 3
    /\ IsOk(last.items[1]) /\ last.items[1].val.id = 1
    /\ IsErr(last.items[2]) /\ last.items[2].err.code = "Internal"
    /\ IsOk(last.items[3]) /\ last.items[3].val.id = 2

\* an RPC method that takes a sub-message was called
RpcCalled == last.op \in {"service_reserve", "lib_reserve", "service_query", "service_filter"}

\* the sub-message of the request of that RPC
SubMessage ==
    IF last.op \in {"service_reserve", "lib_reserve"} THEN last.arg.reservation
    ELSE IF last.op = "service_query" THEN last.arg.query
    ELSE last.arg.filter

\* the call of the manager that RPC stands for
ManagerCall ==
    IF last.op \in {"service_reserve", "lib_reserve"} THEN "reserve"
    ELSE IF last.op = "service_query" THEN "query"
    ELSE "filter"

(* C29: the reserve, query and filter RPC methods return a MissingArgument   *)
(* error, an invalid-argument status, without a call to the manager when the *)
(* request has no reservation, query or filter, and hand the sub-message to  *)
(* the manager when it has one.                                              *)
C29_MissingArgument ==
    RpcCalled
    => IF IsSome(SubMessage)
       THEN last.calls = << << ManagerCall, Unwrap(SubMessage) >> >>
       ELSE /\ IsErr(last.res)
            /\ last.res.err.code = "InvalidArgument"
            /\ Head(last.res.err.message) = "missing argument: "
            /\ last.calls = << >>
            /\ rows = last.pre

\* the store's error is the exclusion violation of rsvp.reservations
IsReservationConflict(e) ==
    /\ e.kind = "Database"
    /\ e.code = "23P01" /\ e.schema = Some("rsvp") /\ e.table = Some("reservations")

(* C31: a store error with code 23P01 on schema rsvp and table reservations  *)
(* is classified as ConflictReservation, a row-not-found result as NotFound, *)
(* and every other store error, 23P01 on another schema or table included,   *)
(* as DbError.                                                               *)
C31_Classification ==
    Called("from_sqlx_error")
    => LET e == last.arg
       IN  last.res.type = IF IsReservationConflict(e) THEN "ConflictReservation"
                           ELSE IF e.kind = "RowNotFound" THEN "NotFound"
                           ELSE "DbError"

\* an exclusion violation reported for a table other than the reservations'
\* was converted: it stays a database error
C31_Witness ==
    /\ Called("from_sqlx_error")
    /\ last.arg.kind = "Database" /\ last.arg.code = "23P01"
    /\ last.arg.schema = Some("rsvp") /\ last.arg.table = Some("users")
    /\ last.res.type = "DbError"

\* an exclusion violation of rsvp.reservations was converted to the conflict
C31_WitnessConflict ==
    /\ Called("from_sqlx_error")
    /\ IsReservationConflict(last.arg)
    /\ last.res.type = "ConflictReservation" /\ last.res.info.variant = "Parsed"

\* the ids of the rows of a table
Ids(table) == {r.id : r \in table}

(* C32: every successful reserve returns an id that differs from and is      *)
(* greater than every id assigned before (the first id in an empty store is  *)
(* 1), the id of a cancelled row is never assigned again, and no operation   *)
(* changes the id of a stored row. The sequence's last value, seq, bounds    *)
(* every id ever assigned: it never decreases and every new id is at most    *)
(* its new value; a new id is greater than its old value.                    *)
C32_IdAssignment ==
    /\ [](\A r \in rows : r.id \in 1..seq)
    /\ [](Cardinality(Ids(rows)) = Cardinality(rows))
    /\ [][LET new == Ids(rows') \ Ids(rows)
               reserved == last = Idle /\ last'.op = "reserve" /\ IsOk(last'.res)
           IN  /\ seq' >= seq
               /\ reserved => new = {last'.res.val.id}
               /\ new # {} => /\ reserved
                              /\ last'.res.val.id > seq
                              /\ last'.res.val.id <= seq'
                              /\ seq = 0 => last'.res.val.id = 1
               /\ ~reserved /\ ~(last = Idle /\ last'.op = "delete")
                  => Ids(rows') = Ids(rows)
               /\ Ids(rows') \subseteq Ids(rows) \cup new]_vars

\* the row with id 1 was cancelled and the store was empty when a reserve
\* succeeded: its id is 2
C32_Witness ==
    /\ Called("reserve") /\ IsOk(last.res)
    /\ last.pre = {}
    /\ last.res.val.id = 2
    /\ Ids(rows) = {2}

(* C33: the listen RPC method returns a not-implemented error status to the  *)
(* caller on every call; it does not abort or panic the task that serves the *)
(* request.                                                                  *)
C33_ListenUnimplemented ==
    Called("service_listen")
    => /\ last.res # Panic
       /\ IsErr(last.res)
       /\ last.res.err.code = "Unimplemented"

\* the rows of the table a filter asks for: those of its user, resource and
\* status from its cursor on in its direction
Planned(table, f) ==
    LET from == IF IsSome(f.cursor) THEN Unwrap(f.cursor)
                ELSE IF f.desc THEN 2147483647 ELSE 0
    IN  {r \in table :
            /\ f.user_id = "" \/ r.user_id = f.user_id
            /\ f.resource_id = << >> \/ r.resource_id = f.resource_id
            /\ r.status = status_to_string(Unwrap(from_i32(f.status)))
            /\ IF f.desc THEN r.id <= from ELSE r.id >= from}

(* C34: the filter plan selects rows with id >= cursor when ascending and    *)
(* id <= cursor when descending, using 0 (ascending) or the maximum signed   *)
(* 64-bit value (descending) when no cursor is supplied, orders by id in the *)
(* requested direction, and limits the result to page_size + 1 rows, plus    *)
(* one more when a cursor was supplied.                                      *)
C34_FilterPlan ==
    (Called("to_sql") /\ last.res # Panic)
    => LET f == last.arg
           fetched == last.res.fetched
           asked == Planned(last.pre, f)
           limit == f.page_size + 1 + (IF IsSome(f.cursor) THEN 1 ELSE 0)
       IN  /\ last.res.sql.limit = limit
           /\ last.res.sql.cursor_condition.id
                = (IF IsSome(f.cursor) THEN Unwrap(f.cursor)
                   ELSE IF f.desc THEN 2147483647 ELSE 0)
           /\ \A i \in DOMAIN fetched : fetched[i] \in asked
           /\ Len(fetched) = IF Cardinality(asked) < limit THEN Cardinality(asked) ELSE limit
           /\ \A i \in DOMAIN fetched, j \in DOMAIN fetched :
                 i < j => IF f.desc THEN fetched[i].id > fetched[j].id
                          ELSE fetched[i].id < fetched[j].id
           /\ \A r \in asked :
                 (\A i \in DOMAIN fetched : fetched[i] # r)
                 => \A i \in DOMAIN fetched :
                       IF f.desc THEN fetched[i].id > r.id ELSE fetched[i].id < r.id

\* a descending statement with a cursor on a table with more rows than its
\* limit: page_size + 2 rows are returned, from the cursor's row down
C34_Witness ==
    /\ Called("to_sql") /\ last.res # Panic
    /\ last.arg.desc /\ last.arg.cursor = Some(MaxRows + 1)
    /\ Len(last.res.fetched) = last.arg.page_size + 2
    /\ Cardinality(Planned(last.pre, last.arg)) > last.arg.page_size + 2
    /\ last.res.fetched[1].id = MaxRows

\* an ascending statement without a cursor: page_size + 1 rows from id 1 on
C34_WitnessNoCursor ==
    /\ Called("to_sql") /\ last.res # Panic
    /\ ~last.arg.desc /\ last.arg.cursor = None
    /\ Len(last.res.fetched) = last.arg.page_size + 1
    /\ Cardinality(Planned(last.pre, last.arg)) > last.arg.page_size + 1
    /\ last.res.fetched[1].id = 1

\* an entry of a detail the parser finds: its resource id is made of letters,
\* digits, '-' and '_'
EntryFound(key) ==
    /\ key.rid # << >>
    /\ \A i \in DOMAIN key.rid : key.rid[i] \in {"a", "b", "-", "_"}

\* the window of an entry can be parsed: its times have whole seconds
WindowParsable(key) == key.lower.frac = 0 /\ key.upper.frac = 0

\* the window an entry stands for
EntryWindow(key) ==
    [rid |-> key.rid,
     start |-> [secs |-> key.lower.secs, nsecs |-> 0],
     end |-> [secs |-> key.upper.secs, nsecs |-> 0]]

(* C35: parsing a conflict detail string into ReservationConflictInfo never  *)
(* fails: when the string holds two key/value entries with parsable windows, *)
(* the first entry becomes the new window and the second the old window;     *)
(* when fewer than two entries are found, or a resource id or window cannot  *)
(* be parsed, the result is the unparsed variant holding the original string *)
(* unchanged.                                                                *)
C35_ConflictParse ==
    Called("conflict_info_from_str")
    => LET s == last.arg
           found == SelectSeq(s, EntryFound)
           info == last.res
       IN  /\ info.variant \in {"Parsed", "Unparsed"}
           /\ (Len(found) = 2 /\ \A i \in 1..2 : WindowParsable(found[i]))
              => /\ info.variant = "Parsed"
                 /\ info.conflict.new = EntryWindow(found[1])
                 /\ info.conflict.old = EntryWindow(found[2])
           /\ (Len(found) < 2 \/ (Len(found) = 2 /\ \E i \in 1..2 : ~WindowParsable(found[i])))
              => /\ info.variant = "Unparsed"
                 /\ info.text = s

\* a detail of two entries, the new window [1 s, 2 s) and the old [0 s, 1 s)
\* of resource a, was parsed
C35_Witness ==
    /\ Called("conflict_info_from_str")
    /\ Len(last.arg) = 2
    /\ last.res.variant = "Parsed"
    /\ last.res.conflict.new = [rid |-> <<"a">>, start |-> [secs |-> 1, nsecs |-> 0],
                                end |-> [secs |-> 2, nsecs |-> 0]]
    /\ last.res.conflict.old = [rid |-> <<"a">>, start |-> [secs |-> 0, nsecs |-> 0],
                                end |-> [secs |-> 1, nsecs |-> 0]]

\* a detail of two entries, one with a time printed with a fraction of a
\* second, was kept unparsed
C35_WitnessUnparsed ==
    /\ Called("conflict_info_from_str")
    /\ Len(last.arg) = 2 /\ \A i \in 1..2 : EntryFound(last.arg[i])
    /\ \E i \in 1..2 : ~WindowParsable(last.arg[i])
    /\ last.res = [variant |-> "Unparsed", text |-> last.arg]

(* C36: a reserve that fails, with ConflictReservation or with a validation  *)
(* error, leaves the store exactly as it was: no row is added, changed or    *)
(* removed, and a later get never returns a row created by the failed call:  *)
(* a row with a new id enters the store in a successful reserve only, and    *)
(* get returns stored rows only.                                             *)
C36_FailedReserve ==
    /\ []((Called("reserve") /\ IsErr(last.res))
          => /\ rows = last.pre
             /\ last.res.err.type \in {"ConflictReservation", "InvalidTimespan",
                                        "InvalidUserId", "InvalidResourceId"})
    /\ []((Called("get") /\ IsOk(last.res)) => last.res.val \in Stored(last.pre))
    /\ [][(last = Idle /\ last'.op = "reserve" /\ IsErr(last'.res)) => rows' = rows]_vars
    /\ [][Ids(rows') \ Ids(rows) # {}
            => (last = Idle /\ last'.op = "reserve" /\ IsOk(last'.res))]_vars

\* a reserve on a store with a row was refused with the conflict, and the
\* store holds that row alone, as before
C36_Witness ==
    /\ Called("reserve")
    /\ ErrIs(last.res, "ConflictReservation")
    /\ Cardinality(last.pre) = 1
    /\ rows = last.pre

\* a reserve without a user was refused by the validation on a store with a
\* row, which is left as it was
C36_WitnessInvalid ==
    /\ Called("reserve")
    /\ ErrIs(last.res, "InvalidUserId")
    /\ Cardinality(last.pre) = 1
    /\ rows = last.pre

(* C37: after cancel removes a row, a reserve on the same resource whose     *)
(* window overlaps the removed row's window and no other stored row's window *)
(* succeeds: a cancelled reservation no longer blocks its window. A valid    *)
(* reserve that no stored row overlaps succeeds, whatever was stored and     *)
(* cancelled before; and on the store a delete leaves, every valid reserve   *)
(* that overlaps the removed row and none of the others succeeds.            *)
C37_CancelFreesWindow ==
    /\ []((/\ Called("reserve")
           /\ IsOk(validate_reservation(last.arg))
           /\ OverlapsIn(last.pre, last.arg) = {})
          => IsOk(last.res))
    /\ [][(last = Idle /\ last'.op = "delete" /\ IsOk(last'.res))
            => \A gone \in RowsWithId(rows, last'.arg) :
                  \A rsvp \in Requests :
                     (/\ IsOk(validate_reservation(rsvp))
                      /\ rsvp.resource_id = gone.resource_id
                      /\ WindowsOverlap(rsvp, row_to_reservation(gone))
                      /\ OverlapsIn(rows \ {gone}, rsvp) = {})
                     => \A o \in reserve_result(rows', seq', rsvp) : IsOk(o.res)]_vars

\* the only row stored, row 1, was cancelled, and a reserve of the window
\* [0 s, 2 s), which overlaps every window a row can have, succeeded with id 2
C37_Witness ==
    /\ Called("reserve") /\ IsOk(last.res)
    /\ last.res.val.id = 2
    /\ last.pre = {}
    /\ last.arg.start = Some(Timestamp(0, 0))
    /\ last.arg.end = Some(Timestamp(MaxSec, 0))
    /\ last.arg.status = StatusPending

\* a confirmed row of resource a was cancelled and the store is empty
C37_WitnessCancel ==
    /\ Called("delete") /\ IsOk(last.res)
    /\ rows = {}
    /\ \E gone \in last.pre :
          gone.id = last.arg /\ gone.status = "confirmed" /\ gone.resource_id = <<"a">>

(* C38: on an unchanging store, starting from a filter without a cursor and  *)
(* repeatedly calling filter with the cursor set to the previous pager's     *)
(* next until next is absent returns every matching row exactly once, in id  *)
(* order for the chosen direction, and ends after finitely many calls: at    *)
(* most one call more than there are matching rows.                          *)
C38_ScanComplete ==
    LET matching == FilterMatches(rows, tasks.first, StatusPending)
    IN  /\ tasks.pc \in {"paging", "done"}
           => /\ tasks.calls <= Cardinality(matching) + 1
              /\ \A i \in DOMAIN tasks.seen : tasks.seen[i] \in matching
              /\ \A i, j \in DOMAIN tasks.seen :
                    i < j => IF tasks.first.desc THEN tasks.seen[i].id > tasks.seen[j].id
                             ELSE tasks.seen[i].id < tasks.seen[j].id
        /\ tasks.pc = "done"
           => \A r \in matching : \E i \in DOMAIN tasks.seen : tasks.seen[i] = r

====
